---- MODULE Spec2Model ----
(***************************************************************************)
(* A model of django_model_helpers:                                        *)
(*   - the generic polymorphic foreign key (SimpleGenericForeignKey),      *)
(*     whose field class is not part of the source tree and is modelled    *)
(*     from the specification's data model and from its tests;             *)
(*   - cached_model_property, in its two implementations                   *)
(*     (model_helpers.py and model_helpers/cache_helpers.py);              *)
(*   - CachedFunction / cached_function;                                   *)
(*   - Choices;                                                            *)
(*   - KeyValueField and its KeyValueContainer;                            *)
(*   - UploadTo.                                                           *)
(* Each part has its own specifications (SpecEnc, SpecGfk, SpecProp,       *)
(* SpecPropTwo, SpecFn, SpecCh, SpecChWrite, SpecKv, SpecKvMap, SpecUp);   *)
(* the variables of the other parts stay at their initial value.           *)
(***************************************************************************)
EXTENDS Integers, Sequences, FiniteSets, TLC

VARIABLES
    enc,        \* encoding round trip: [phase, index, pk, stored, dIndex, dPk]
    registry,   \* SimpleGenericForeignKey registry: set of <<index, model>>
    rows,       \* persisted target records: set of [model, pk]
    rel,        \* the in-memory ModelX object: [link, held, saved]
    gout,       \* outcome of the last generic-foreign-key operation
    cache,      \* the cache backend: key -> [value, ttl]
    pcfg,       \* the decorator under check: [impl, readonly, timeout]
    pout,       \* outcome of the last cached-property operation
    fcfg,       \* the cached function under check: [fn, cf]
    field,      \* the key class attribute of the object the method is called on
    fout,       \* outcome of the last cached-function operation
    ch,         \* the Choices object the operations are applied to
    cout,       \* outcome of the last Choices operation
    kv,         \* the KeyValueField of a Team object: [sep, held, text, map, origin]
    kvout,      \* outcome of the last KeyValueField operation
    up,         \* an UploadTo object and the upload: [options, settings, kwargs, name]
    upout       \* outcome of the last UploadTo call

gfkVars == <<registry, rows, rel, gout>>
propVars == <<cache, pcfg, pout>>
fnVars == <<fcfg, field, fout>>
chVars == <<ch, cout>>
kvVars == <<kv, kvout>>
upVars == <<up, upout>>
\* everything but the generic foreign key's state
notGfk == <<enc, propVars, fnVars, chVars, kvVars, upVars>>
\* everything but the packing check's state
notEnc == <<gfkVars, propVars, fnVars, chVars, kvVars, upVars>>
\* everything but the cached property's state
notProp == <<enc, gfkVars, fnVars, chVars, kvVars, upVars>>
\* everything but the cached function's state (the cache backend is shared)
notFn == <<enc, gfkVars, pcfg, pout, chVars, kvVars, upVars>>
\* everything but the Choices objects
notCh == <<enc, gfkVars, propVars, fnVars, kvVars, upVars>>
\* everything but the key/value field
notKv == <<enc, gfkVars, propVars, fnVars, chVars, upVars>>
\* everything but the upload
notUp == <<enc, gfkVars, propVars, fnVars, chVars, kvVars>>
vars == <<enc, registry, rows, rel, gout, cache, pcfg, pout, fcfg, field, fout,
          ch, cout, kv, kvout, up, upout>>

\* Python's None in an integer position (a NULL column, no primary key).
Null == -1

(***************************************************************************)
(* Generic foreign key: the packing scheme.                                *)
(***************************************************************************)

\* Width of the primary key part: 257 is the reference to (index 1, pk 1).
PkBits == 8
\* Width of the registry index part that the checks enumerate.
IndexBits == 2

Pow2(n) == 2 ^ n

ValidIndexes == 0 .. (Pow2(IndexBits) - 1)
ValidPks == 0 .. (Pow2(PkBits) - 1)

EncodeShort(index, pk) == index * Pow2(PkBits - 1) + pk

\* index in the high bits, primary key in the low bits
Encode(index, pk) == index * Pow2(PkBits) + pk

DecodeIndex(value) == IF value = Null THEN Null ELSE value \div Pow2(PkBits)

DecodePk(value) == IF value = Null THEN Null ELSE value % Pow2(PkBits)

EncIdle == [phase |-> "idle", index |-> 0, pk |-> 0, stored |-> Null,
            dIndex |-> Null, dPk |-> Null]

EncInit ==
    \E i \in ValidIndexes, p \in ValidPks :
        enc = [phase |-> "input", index |-> i, pk |-> p, stored |-> Null,
               dIndex |-> Null, dPk |-> Null]

\* get_prep_value: the pair is packed into the stored integer
EncStore ==
    /\ enc.phase = "input"
    /\ enc' = [enc EXCEPT !.phase = "stored",
                          !.stored = Encode(enc.index, enc.pk)]
    /\ UNCHANGED notEnc

\* from_db_value: the stored integer is unpacked again
EncLoad ==
    /\ enc.phase = "stored"
    /\ enc' = [enc EXCEPT !.phase = "loaded",
                          !.dIndex = DecodeIndex(enc.stored),
                          !.dPk = DecodePk(enc.stored)]
    /\ UNCHANGED notEnc

(***************************************************************************)
(* Generic foreign key: registry, lazy resolution, null reference.         *)
(***************************************************************************)

\* Highest registry index the check registers models under.
MaxIndex == 2
\* Highest primary key of a target record.
MaxPk == 1

Models == {"ModelA", "ModelB", "ModelX"}
\* models whose records the store holds (ModelX is the referring model)
TargetModels == {"ModelA", "ModelB"}
RegIndexes == 1 .. MaxIndex
TargetPks == 1 .. MaxPk

NoObj == [model |-> "None", pk |-> Null]
Obj(m, p) == [model |-> m, pk |-> p]

Out(op, val, cls, obj, err, queried) ==
    [op |-> op, val |-> val, cls |-> cls, obj |-> obj, err |-> err,
     queried |-> queried]

IndexTaken(reg, index) == \E m \in Models : <<index, m>> \in reg

Registered(reg, m) == \E i \in RegIndexes : <<i, m>> \in reg

ModelAt(reg, index) ==
    IF IndexTaken(reg, index)
    THEN CHOOSE m \in Models : <<index, m>> \in reg
    ELSE "None"

\* the index a model is registered under (the lowest, should there be two)
IndexOf(reg, m) ==
    CHOOSE i \in RegIndexes :
        /\ <<i, m>> \in reg
        /\ \A j \in RegIndexes : <<j, m>> \in reg => i <= j

RegisterUnchecked(reg, index, m) == reg \cup {<<index, m>>}

\* register_generic_model(index)(model): the registry after the call
RegisterResult(reg, index, m) ==
    IF IndexTaken(reg, index) THEN reg ELSE reg \cup {<<index, m>>}

\* link__class for a stored value
ClassOf(reg, value) ==
    IF value = Null THEN "None" ELSE ModelAt(reg, DecodeIndex(value))

\* the record a stored value refers to, before it is looked up
TargetOf(reg, value) ==
    IF value = Null THEN NoObj
    ELSE Obj(ModelAt(reg, DecodeIndex(value)), DecodePk(value))

HeldAfterSetKept(old, obj) == IF obj = NoObj THEN old.held ELSE obj

\* the held record after the reference is set: an assigned instance is held,
\* any other form of assignment drops what was held
HeldAfterSet(old, obj) == obj

GfkInit ==
    /\ registry = {}
    /\ rows = {}
    /\ rel = [link |-> Null, held |-> NoObj]
    /\ gout = Out("init", Null, "None", NoObj, "none", FALSE)

Register(index, m) ==
    /\ registry' = RegisterResult(registry, index, m)
    /\ gout' = Out("register", index, m, NoObj,
                   IF IndexTaken(registry, index) THEN "AssertionError" ELSE "none",
                   FALSE)
    /\ UNCHANGED <<rows, rel, notGfk>>

CreateTarget(m, p) ==
    /\ Obj(m, p) \notin rows
    /\ rows' = rows \cup {Obj(m, p)}
    /\ gout' = Out("create", p, m, Obj(m, p), "none", FALSE)
    /\ UNCHANGED <<registry, rel, notGfk>>

DeleteTarget(m, p) ==
    /\ Obj(m, p) \in rows
    /\ rows' = rows \ {Obj(m, p)}
    /\ gout' = Out("delete", p, m, NoObj, "none", FALSE)
    /\ UNCHANGED <<registry, rel, notGfk>>

\* obj.link = instance (the instance need not be persisted any more)
AssignInstance(m, p) ==
    /\ IF Registered(registry, m)
       THEN /\ rel' = [link |-> Encode(IndexOf(registry, m), p),
                       held |-> HeldAfterSet(rel, Obj(m, p))]
            /\ gout' = Out("assign_instance", p, m, NoObj, "none", FALSE)
       ELSE /\ rel' = rel
            /\ gout' = Out("assign_instance", p, m, NoObj, "NotRegistered", FALSE)
    /\ UNCHANGED <<registry, rows, notGfk>>

\* obj.link = (Model, pk)
AssignTuple(m, p) ==
    /\ IF Registered(registry, m)
       THEN /\ rel' = [link |-> Encode(IndexOf(registry, m), p),
                       held |-> HeldAfterSet(rel, NoObj)]
            /\ gout' = Out("assign_value", p, m, NoObj, "none", FALSE)
       ELSE /\ rel' = rel
            /\ gout' = Out("assign_value", p, m, NoObj, "NotRegistered", FALSE)
    /\ UNCHANGED <<registry, rows, notGfk>>

\* obj.link = 257, the stored form
AssignInt(value) ==
    /\ IF IndexTaken(registry, DecodeIndex(value))
       THEN /\ rel' = [link |-> value, held |-> HeldAfterSet(rel, NoObj)]
            /\ gout' = Out("assign_value", value, "None", NoObj, "none", FALSE)
       ELSE /\ rel' = rel
            /\ gout' = Out("assign_value", value, "None", NoObj, "NotRegistered", FALSE)
    /\ UNCHANGED <<registry, rows, notGfk>>

\* obj.link = None
AssignNull ==
    /\ rel' = [link |-> Null, held |-> HeldAfterSet(rel, NoObj)]
    /\ gout' = Out("assign_null", Null, "None", NoObj, "none", FALSE)
    /\ UNCHANGED <<registry, rows, notGfk>>

NeedsLookupAlways(r) == r.held = NoObj

\* does reading link__obj have to look the target up in the store?
NeedsLookup(r) == r.link # Null /\ r.held = NoObj

\* obj.link__obj
ReadObj ==
    LET target == TargetOf(registry, rel.link) IN
    /\ IF ~NeedsLookup(rel)
       THEN /\ rel' = rel
            /\ gout' = Out("read_obj", rel.link, "None", rel.held, "none", FALSE)
       ELSE IF target \in rows
            THEN /\ rel' = [rel EXCEPT !.held = target]
                 /\ gout' = Out("read_obj", rel.link, "None", target, "none", TRUE)
            ELSE /\ rel' = rel
                 /\ gout' = Out("read_obj", rel.link, "None", NoObj, "DoesNotExist", TRUE)
    /\ UNCHANGED <<registry, rows, notGfk>>

\* obj.link__class
ReadClass ==
    /\ gout' = Out("read_class", rel.link, ClassOf(registry, rel.link), NoObj, "none", FALSE)
    /\ UNCHANGED <<registry, rows, rel, notGfk>>

\* obj.link
ReadLink ==
    /\ gout' = Out("read_link", rel.link, "None", NoObj, "none", FALSE)
    /\ UNCHANGED <<registry, rows, rel, notGfk>>

\* obj.full_clean()
FullClean ==
    /\ gout' = Out("full_clean", rel.link, "None", NoObj, "none", FALSE)
    /\ UNCHANGED <<registry, rows, rel, notGfk>>

\* obj.save()
Save ==
    /\ gout' = Out("save", rel.link, "None", NoObj, "none", FALSE)
    /\ UNCHANGED <<registry, rows, rel, notGfk>>

GfkNext ==
    \/ \E i \in RegIndexes, m \in Models : Register(i, m)
    \/ \E m \in TargetModels, p \in TargetPks : CreateTarget(m, p)
    \/ \E m \in TargetModels, p \in TargetPks : DeleteTarget(m, p)
    \/ \E m \in Models, p \in TargetPks : AssignInstance(m, p)
    \/ \E m \in Models, p \in TargetPks : AssignTuple(m, p)
    \/ \E i \in RegIndexes, p \in TargetPks : AssignInt(Encode(i, p))
    \/ AssignNull
    \/ ReadObj
    \/ ReadClass
    \/ ReadLink
    \/ FullClean
    \/ Save

(***************************************************************************)
(* The cache backend (django.core.cache.cache) as the helpers use it.      *)
(***************************************************************************)

\* Seconds an entry lives when cache.set is given no timeout.
DefaultTimeout == 3
\* Results of decorated methods and assigned values are None or 1 .. MaxVal.
MaxVal == 2

Vals == {Null} \cup (1 .. MaxVal)

NoCache == [k \in {} |-> [value |-> Null, ttl |-> 0]]

Live(c, key) == key \in DOMAIN c /\ c[key].ttl > 0

\* cache.get(key): None when the key is absent or expired
CacheGet(c, key) == IF Live(c, key) THEN c[key].value ELSE Null

\* cache.set(key, value, ttl)
CacheSet(c, key, value, ttl) ==
    [k \in DOMAIN c \cup {key} |->
        IF k = key THEN [value |-> value, ttl |-> IF ttl > 0 THEN ttl ELSE 0]
        ELSE c[k]]

\* cache.delete(key)
CacheDelete(c, key) == [k \in DOMAIN c \ {key} |-> c[k]]

\* one second passes: expired entries stay in the backend until overwritten
CacheAge(c) ==
    [k \in DOMAIN c |-> [c[k] EXCEPT !.ttl = IF c[k].ttl > 0 THEN c[k].ttl - 1 ELSE 0]]

TtlDefaultOnly(timeout) == DefaultTimeout

\* cache.set(key, value) when cache_timeout is None, else cache.set(key, value, cache_timeout)
Ttl(timeout) == IF timeout = Null THEN DefaultTimeout ELSE timeout

(***************************************************************************)
(* CachedFunction.get_cache_key (model_helpers/cache_helpers.py).          *)
(***************************************************************************)

\* Python values bound to parameters and attributes
PyInt(n) == [t |-> "int", v |-> n]
PyNone == [t |-> "None", v |-> 0]
PyObj(o) == [t |-> "obj", v |-> o]

ReprType(x) == x.t

\* repr(value)
Repr(x) ==
    CASE x.t = "int" -> ToString(x.v)
      [] x.t = "None" -> "None"
      [] OTHER -> "<object " \o ToString(x.v) \o ">"

\* inspect.getcallargs: positional arguments in parameter order, then the
\* keyword arguments in the order written, then the defaults not yet bound
GetCallArgs(fn, call) ==
    LET npos == Len(call.pos)
        bound == {fn.params[i] : i \in 1 .. npos}
                    \cup {call.kw[i][1] : i \in 1 .. Len(call.kw)}
    IN [i \in 1 .. npos |-> <<fn.params[i], call.pos[i]>>]
          \o call.kw
          \o SelectSeq(fn.defaults, LAMBDA d : d[1] \notin bound)

ArgNames(fa) == {fa[i][1] : i \in 1 .. Len(fa)}

\* the value bound to a parameter
Bound(fa, name) == fa[CHOOSE i \in 1 .. Len(fa) : fa[i][1] = name][2]

\* d[name] = value on a dict kept in insertion order
DictSet(d, name, value) ==
    IF \E i \in 1 .. Len(d) : d[i][1] = name
    THEN [i \in 1 .. Len(d) |-> IF d[i][1] = name THEN <<name, value>> ELSE d[i]]
    ELSE Append(d, <<name, value>>)

\* d.pop(name, None)
DictPop(d, name) == SelectSeq(d, LAMBDA e : e[1] # name)

WithoutClassAttrs(args, attrNames, attrs) == args

RECURSIVE WithClassAttrs(_, _, _)
\* for class_attr in key_class_attrs: args["class.<attr>"] = repr(getattr(obj, attr))
WithClassAttrs(args, attrNames, attrs) ==
    IF attrNames = <<>> THEN args
    ELSE WithClassAttrs(
            DictSet(args, "class." \o Head(attrNames), Repr(attrs[Head(attrNames)])),
            Tail(attrNames), attrs)

\* "if self.key_parameters:" - None and the empty list both count as not given
Truthy(keyParameters) == keyParameters.given /\ keyParameters.names # {}

\* the "args" entry of the function signature
KeyArgs(cf, fa, attrs) ==
    LET keyParameters == IF Truthy(cf.key_parameters)
                         THEN cf.key_parameters.names ELSE ArgNames(fa)
        sel == SelectSeq(fa, LAMBDA b : b[1] \in keyParameters)
        args == [i \in 1 .. Len(sel) |-> <<sel[i][1], Repr(sel[i][2])>>]
    IN IF "self" \in ArgNames(fa) \/ "cls" \in ArgNames(fa)
       THEN DictPop(DictPop(
                WithClassAttrs(args, cf.key_class_attrs.names, attrs), "cls"), "self")
       ELSE args

KeyErrorNever(cf, fa) == "none"

\* the assertion of get_cache_key: a method needs key_class_attrs
KeyError(cf, fa) ==
    IF ("self" \in ArgNames(fa) \/ "cls" \in ArgNames(fa)) /\ ~cf.key_class_attrs.given
    THEN "AssertionError" ELSE "none"

\* sha256(json.dumps(func_signature)): one key per signature, the args in
\* their insertion order
GetCacheKey(cf, fn, fa, attrs) == <<fn.qualname, fn.module, KeyArgs(cf, fa, attrs)>>

ReadThroughServeNone(c, key, r, timeout) ==
    IF Live(c, key)
    THEN [cache |-> c, value |-> c[key].value, calls |-> 0]
    ELSE [cache |-> CacheSet(c, key, r, Ttl(timeout)), value |-> r, calls |-> 1]

ReadThroughNoStore(c, key, r, timeout) ==
    LET v == CacheGet(c, key) IN
    IF v = Null
    THEN [cache |-> c, value |-> r, calls |-> 1]
    ELSE [cache |-> c, value |-> v, calls |-> 0]

\* wrapper of CachedFunction.__call__, get_x of model_helpers.py: r is what
\* the wrapped function returns if it is called
ReadThrough(c, key, r, timeout) ==
    LET v == CacheGet(c, key) IN
    IF v = Null
    THEN [cache |-> CacheSet(c, key, r, Ttl(timeout)), value |-> r, calls |-> 1]
    ELSE [cache |-> c, value |-> v, calls |-> 0]

(***************************************************************************)
(* cached_model_property on the Team model of the test application.        *)
(***************************************************************************)

\* in-memory Team objects: team1, team1_new (the same row read again), team2
Teams == {1, 2, 3}
TeamPk(o) == IF o = 3 THEN 2 ELSE 1

\* the decorated method and its model
PropFn == [qualname |-> "Team.cached_counter", module |-> "sample.models",
           name |-> "cached_counter", params |-> <<"self">>, defaults |-> <<>>]
DbTable == "sample_team"

\* objects of a second model with its own table that takes cached_counter
\* from the same class body (a common base class): player1, primary key 1
Players == {4}
PlayerTable == "sample_player"

\* getattr(obj, "_meta").db_table
TableOf(o) == IF o \in Players THEN PlayerTable ELSE DbTable

\* CachedFunction(cache_timeout, key_class_attrs=["pk"], key_parameters=None)
PropCf(timeout) ==
    [cache_timeout |-> timeout,
     key_parameters |-> [given |-> FALSE, names |-> {}],
     key_class_attrs |-> [given |-> TRUE, names |-> <<"pk">>]]

PropKeyNoPk(cfg, o) ==
    IF cfg.impl = "model_helpers"
    THEN DbTable \o "." \o PropFn.name
    ELSE <<PropFn.qualname, PropFn.module, <<>>>>

\* _get_cache_key of model_helpers.py; get_cache_key(original_func, obj) of
\* cache_helpers.py
PropKey(cfg, o) ==
    IF cfg.impl = "model_helpers"
    THEN TableOf(o) \o "." \o ToString(TeamPk(o)) \o "." \o PropFn.name
    ELSE GetCacheKey(PropCf(cfg.timeout), PropFn,
                     GetCallArgs(PropFn, [pos |-> <<PyObj(o)>>, kw |-> <<>>]),
                     [a \in {"pk"} |-> PyInt(TeamPk(o))])

DelXSkipped(c, cfg, o) == c

\* del_x: remove the property's key from the cache
DelX(c, cfg, o) == CacheDelete(c, PropKey(cfg, o))

SetXDropped(c, cfg, o, value) == c

\* set_x: cache the value under the property's key
SetX(c, cfg, o, value) == CacheSet(c, PropKey(cfg, o), value, Ttl(cfg.timeout))

\* what the backend held under a key: "absent", "expired" or "live"
EntryState(c, key) ==
    IF key \notin DOMAIN c THEN "absent"
    ELSE IF c[key].ttl > 0 THEN "live" ELSE "expired"

\* the outcome of an operation; was: the state of the object's entry before
\* it, prev: the operation before it and the primary key it was on
POut(op, o, value, calls, err) ==
    [op |-> op, obj |-> o, value |-> value, calls |-> calls, err |-> err,
     was |-> IF o = 0 THEN "na" ELSE EntryState(cache, PropKey(pcfg, o)),
     prev |-> <<pout.op, IF pout.obj = 0 THEN 0 ELSE TeamPk(pout.obj)>>]

\* no property under check
PropOff == [impl |-> "none", readonly |-> TRUE, timeout |-> Null]

POutInit ==
    [op |-> "init", obj |-> 0, value |-> Null, calls |-> 0, err |-> "none",
     was |-> "na", prev |-> <<"init", 0>>]

PropIdle ==
    /\ cache = NoCache
    /\ pcfg = PropOff
    /\ pout = POutInit

\* either implementation, read-only or writable, cache_timeout None, 0 or 1
PropInit ==
    /\ cache = NoCache
    /\ pcfg \in [impl : {"model_helpers", "cache_helpers"},
                 readonly : BOOLEAN,
                 timeout : {Null, 0, 1}]
    /\ pout = POutInit

\* obj.prop
PropRead(o, r) ==
    LET res == ReadThrough(cache, PropKey(pcfg, o), r, pcfg.timeout) IN
    /\ cache' = res.cache
    /\ pout' = POut("read", o, res.value, res.calls, "none")
    /\ UNCHANGED <<pcfg, notProp>>

\* del obj.prop
PropDel(o) ==
    /\ cache' = DelX(cache, pcfg, o)
    /\ pout' = POut("del", o, Null, 0, "none")
    /\ UNCHANGED <<pcfg, notProp>>

\* obj.prop = value: a read-only property has no setter
PropSet(o, value) ==
    /\ IF pcfg.readonly
       THEN /\ cache' = cache
            /\ pout' = POut("set", o, value, 0, "AttributeError")
       ELSE /\ cache' = SetX(cache, pcfg, o, value)
            /\ pout' = POut("set", o, value, 0, "none")
    /\ UNCHANGED <<pcfg, notProp>>

\* sleep(1)
PropTick ==
    /\ \E k \in DOMAIN cache : cache[k].ttl > 0
    /\ cache' = CacheAge(cache)
    /\ pout' = POut("tick", 0, Null, 0, "none")
    /\ UNCHANGED <<pcfg, notProp>>

PropNext ==
    \/ \E o \in Teams, r \in Vals : PropRead(o, r)
    \/ \E o \in Teams : PropDel(o)
    \/ \E o \in Teams, v \in Vals : PropSet(o, v)
    \/ PropTick

\* one object of each model, both with primary key 1
PropObjs == {1} \cup Players

\* results and assigned values: None, the falsy 0, and 1
PropVals == {Null, 0, 1}

\* the property on objects of two models that share the decorated method
PropTwoNext ==
    \/ \E o \in PropObjs, r \in PropVals : PropRead(o, r)
    \/ \E o \in PropObjs : PropDel(o)
    \/ \E o \in PropObjs, v \in PropVals : PropSet(o, v)
    \/ PropTick

(***************************************************************************)
(* cached_function on plain functions and methods.                         *)
(***************************************************************************)

\* Entries the backend holds at most while cached functions are checked.
MaxEntries == 2

\* argument and attribute values
ArgVals == {1, 2}

\* ExampleClass.cached_func1, a static method returning arg_a + arg_b
FnStatic ==
    [qualname |-> "ExampleClass.cached_func1",
     module |-> "sample.tests.test_cached_function",
     params |-> <<"arg_a", "arg_b">>, defaults |-> <<>>, implicit |-> 0]

\* Example2 of CachedFunction: A.sum(self, a, log_output) returning a + self.b
FnMethod ==
    [qualname |-> "A.sum", module |-> "sample.models",
     params |-> <<"self", "a", "log_output">>, defaults |-> <<>>, implicit |-> 1]

\* ExampleClass.cached_func3, a class method returning arg_a + arg_b
FnClass ==
    [qualname |-> "ExampleClass.cached_func3",
     module |-> "sample.tests.test_cached_function",
     params |-> <<"cls", "arg_a", "arg_b">>, defaults |-> <<>>, implicit |-> 1]

\* the class attribute the methods key on (b of Example2, example_field of
\* ExampleClass)
AttrName == "b"

\* parameters the caller passes
Explicit(fn) == {fn.params[i] : i \in (fn.implicit + 1) .. Len(fn.params)}

\* CachedFunction(cache_timeout, key_parameters, key_class_attrs): the
\* decorations the check draws from
Decorations(fn) ==
    [cache_timeout : {Null},
     key_parameters : {[given |-> FALSE, names |-> {}]}
                         \cup [given : {TRUE}, names : SUBSET Explicit(fn)],
     key_class_attrs : {[given |-> FALSE, names |-> <<>>],
                        [given |-> TRUE, names |-> <<AttrName>>]}]

Perms(S) ==
    {s \in [1 .. Cardinality(S) -> S] : \A i, j \in DOMAIN s : s[i] = s[j] => i = j}

\* the ways of writing a call: the first npos parameters positionally, the
\* others by keyword in any order (a parameter with a default may be left out)
CallForms(fn) ==
    UNION {
        LET rest == {fn.params[i] : i \in (n + 1) .. Len(fn.params)}
            optional == {fn.defaults[i][1] : i \in 1 .. Len(fn.defaults)}
        IN UNION {{[npos |-> n, kw |-> s] : s \in Perms(K)} :
                    K \in {K \in SUBSET rest : rest \ optional \subseteq K}}
        : n \in fn.implicit .. Len(fn.params)}

\* the call of a form with given argument values, on object 1
MakeCall(fn, form, asg) ==
    [pos |-> [i \in 1 .. form.npos |->
                 IF fn.params[i] \in {"self", "cls"} THEN PyObj(1)
                 ELSE PyInt(asg[fn.params[i]])],
     kw |-> [i \in 1 .. Len(form.kw) |-> <<form.kw[i], PyInt(asg[form.kw[i]])>>]]

\* what the wrapped function returns
Body(fn, fa, attr) ==
    IF "arg_a" \in ArgNames(fa)
    THEN Bound(fa, "arg_a").v + Bound(fa, "arg_b").v
    ELSE Bound(fa, "a").v + attr

FOut(op, fa, key, value, executed, err) ==
    [op |-> op, fa |-> fa, key |-> key, value |-> value, executed |-> executed,
     err |-> err]

NoKey == <<"", "", <<>>>>

FnIdle ==
    /\ fcfg = [fn |-> FnStatic,
               cf |-> [cache_timeout |-> Null,
                       key_parameters |-> [given |-> FALSE, names |-> {}],
                       key_class_attrs |-> [given |-> FALSE, names |-> <<>>]]]
    /\ field = 1
    /\ fout = FOut("init", <<>>, NoKey, Null, FALSE, "none")

FnInit ==
    /\ cache = NoCache
    /\ \E fn \in {FnStatic, FnMethod, FnClass} : \E cf \in Decorations(fn) :
          fcfg = [fn |-> fn, cf |-> cf]
    /\ field = 1
    /\ fout = FOut("init", <<>>, NoKey, Null, FALSE, "none")

\* wrapper(*args, **kwargs) of CachedFunction.__call__
FnCall(form, asg) ==
    LET fn == fcfg.fn
        cf == fcfg.cf
        fa == GetCallArgs(fn, MakeCall(fn, form, asg))
        key == GetCacheKey(cf, fn, fa, [x \in {AttrName} |-> PyInt(field)])
        res == ReadThrough(cache, key, Body(fn, fa, field), cf.cache_timeout)
    IN /\ IF KeyError(cf, fa) # "none"
          THEN /\ cache' = cache
               /\ fout' = FOut("call", fa, NoKey, Null, FALSE, KeyError(cf, fa))
          ELSE /\ key \in DOMAIN cache \/ Cardinality(DOMAIN cache) < MaxEntries
               /\ cache' = res.cache
               /\ fout' = FOut("call", fa, key, res.value, res.calls = 1, "none")
       /\ UNCHANGED <<fcfg, field, notFn>>

\* example_instance.example_field = value
SetField(value) ==
    /\ value # field
    /\ field' = value
    /\ fout' = FOut("setattr", <<>>, NoKey, value, FALSE, "none")
    /\ UNCHANGED <<cache, fcfg, notFn>>

FnNext ==
    \/ \E form \in CallForms(fcfg.fn), asg \in [Explicit(fcfg.fn) -> ArgVals] :
          FnCall(form, asg)
    \/ \E v \in ArgVals : SetField(v)

(***************************************************************************)
(* Text: a string is the sequence of its characters.                       *)
(***************************************************************************)

\* ord(c) for the characters that occur
Ord(c) ==
    CASE c = " " -> 32 [] c = "." -> 46 [] c = ":" -> 58 [] c = "=" -> 61
      [] c = "A" -> 65 [] c = "B" -> 66 [] c = "X" -> 88 [] c = "_" -> 95
      [] c = "a" -> 97 [] c = "b" -> 98 [] c = "x" -> 120
      [] OTHER -> 10

\* c.upper() and c.lower()
Upper(c) == CASE c = "a" -> "A" [] c = "b" -> "B" [] c = "x" -> "X" [] OTHER -> c
Lower(c) ==
    CASE c = "A" -> "a" [] c = "B" -> "b" [] c = "X" -> "x"
      [] c = "P" -> "p" [] c = "Y" -> "y" [] OTHER -> c

\* s.capitalize(): the first character upper case, the others lower case
Capitalize(s) == [i \in DOMAIN s |-> IF i = 1 THEN Upper(s[i]) ELSE Lower(s[i])]

\* s.replace(old, new) for single characters
Replace(s, old, new) == [i \in DOMAIN s |-> IF s[i] = old THEN new ELSE s[i]]

RECURSIVE StrLess(_, _)
\* s < t on strings
StrLess(s, t) ==
    IF t = <<>> THEN FALSE
    ELSE IF s = <<>> THEN TRUE
    ELSE IF s[1] = t[1] THEN StrLess(Tail(s), Tail(t))
    ELSE Ord(s[1]) < Ord(t[1])

(***************************************************************************)
(* KeyValueField and KeyValueContainer (model_helpers/key_value_field.py,  *)
(* model_helpers.py).                                                      *)
(***************************************************************************)

\* Characters of the longest text assigned to the field.
MaxText == 6

\* the characters the texts are written in
TextChars == {"a", " ", "=", "\n"}

Texts == UNION {[1 .. n -> TextChars] : n \in 0 .. MaxText}

\* separators a field is configured with
Separators == {<<"=">>, <<"a">>}

\* characters str.strip() removes
IsSpace(c) == c \in {" ", "\n", "\t", "\r"}

RECURSIVE LStrip(_)
LStrip(s) == IF s # <<>> /\ IsSpace(Head(s)) THEN LStrip(Tail(s)) ELSE s

RECURSIVE RStrip(_)
RStrip(s) ==
    IF s # <<>> /\ IsSpace(s[Len(s)]) THEN RStrip(SubSeq(s, 1, Len(s) - 1)) ELSE s

StripNothing(s) == s

\* s.strip()
Strip(s) == RStrip(LStrip(s))

RECURSIVE FindFrom(_, _, _)
\* the first position, from i on, at which sub occurs in s; 0 when there is none
FindFrom(s, sub, i) ==
    IF i + Len(sub) - 1 > Len(s) THEN 0
    ELSE IF SubSeq(s, i, i + Len(sub) - 1) = sub THEN i
    ELSE FindFrom(s, sub, i + 1)

RECURSIVE RFindFrom(_, _, _)
\* the last position, from i down, at which sub occurs in s; 0 when there is none
RFindFrom(s, sub, i) ==
    IF i < 1 THEN 0
    ELSE IF SubSeq(s, i, i + Len(sub) - 1) = sub THEN i
    ELSE RFindFrom(s, sub, i - 1)

\* s.rsplit(sep, 1)
RSplit(s, sep) ==
    LET i == RFindFrom(s, sep, Len(s) - Len(sep) + 1) IN
    IF i = 0 THEN <<s>>
    ELSE <<SubSeq(s, 1, i - 1), SubSeq(s, i + Len(sep), Len(s))>>

RECURSIVE Split(_, _, _)
\* s.split(sep, maxsplit); maxsplit -1 for no limit
Split(s, sep, maxsplit) ==
    LET i == FindFrom(s, sep, 1) IN
    IF maxsplit = 0 \/ i = 0 THEN <<s>>
    ELSE <<SubSeq(s, 1, i - 1)>>
            \o Split(SubSeq(s, i + Len(sep), Len(s)), sep, maxsplit - 1)

RECURSIVE ParseLines(_, _, _)
\* the loop of _parse_string over the lines still to read
ParseLines(lines, sep, result) ==
    IF lines = <<>> THEN [err |-> "none", dict |-> result]
    ELSE LET line == Strip(Head(lines)) IN
         IF line = <<>> THEN ParseLines(Tail(lines), sep, result)
         ELSE IF FindFrom(line, sep, 1) = 0 THEN [err |-> "ValueError", dict |-> result]
         ELSE LET parts == Split(line, sep, 1) IN
              ParseLines(Tail(lines), sep,
                         DictSet(result, Strip(parts[1]), Strip(parts[2])))

\* KeyValueContainer._parse_string
ParseString(value, sep) ==
    IF value = <<>> THEN [err |-> "none", dict |-> <<>>]
    ELSE ParseLines(Split(value, <<"\n">>, -1), sep, <<>>)

\* Python values: a string, None, the number 30; s is what str() makes of it
StrVal(s) == [t |-> "str", s |-> s]
NoneVal == [t |-> "None", s |-> <<"N", "o", "n", "e">>]
IntVal == [t |-> "int", s |-> <<"3", "0">>]

SetItemAsGiven(c, key, item) == [c EXCEPT !.dict = DictSet(@, key, item)]

\* KeyValueContainer.__setitem__: None becomes "", anything else its str()
KvSetItem(c, key, item) ==
    [c EXCEPT !.dict = DictSet(@, key, IF item.t = "None" THEN StrVal(<<>>)
                                        ELSE StrVal(item.s))]

RECURSIVE SetItems(_, _)
\* for key, value in pairs: c[key] = value
SetItems(c, pairs) ==
    IF pairs = <<>> THEN c
    ELSE SetItems(KvSetItem(c, Head(pairs)[1], Head(pairs)[2]), Tail(pairs))

RECURSIVE DictUpdate(_, _)
\* dict.update(d, pairs)
DictUpdate(d, pairs) ==
    IF pairs = <<>> THEN d
    ELSE DictUpdate(DictSet(d, Head(pairs)[1], Head(pairs)[2]), Tail(pairs))

\* KeyValueContainer(seq, separator=sep, **kwargs) for a mapping seq:
\* kwargs.update(dict(seq)), then every entry is set through __setitem__
NewContainer(seq, sep, kwargs) ==
    SetItems([sep |-> sep, dict |-> <<>>], DictUpdate(kwargs, seq))

\* KeyValueContainer(text, separator=sep): the parsed entries are set one by
\* one, each value through str()
Container(text, sep) ==
    LET parsed == ParseString(text, sep) IN
    [err |-> parsed.err,
     obj |-> NewContainer([i \in DOMAIN parsed.dict |->
                             <<parsed.dict[i][1], StrVal(parsed.dict[i][2])>>],
                          sep, <<>>)]

\* KeyValueContainer.update: the update of dict, which stores the values as
\* they are given
KvUpdate(c, pairs) == [c EXCEPT !.dict = DictUpdate(@, pairs)]

RECURSIVE JoinLines(_)
\* "\n".join(lines)
JoinLines(lines) ==
    IF lines = <<>> THEN <<>>
    ELSE IF Len(lines) = 1 THEN lines[1]
    ELSE Head(lines) \o <<"\n">> \o JoinLines(Tail(lines))

ContainerStrNoFeed(c) ==
    IF \E i \in DOMAIN c.dict : c.dict[i][2].t # "str"
    THEN [err |-> "TypeError", text |-> <<>>]
    ELSE [err |-> "none",
          text |-> JoinLines([i \in DOMAIN c.dict |->
                                c.dict[i][1] \o <<" ">> \o c.sep \o <<" ">>
                                    \o c.dict[i][2].s])]

\* KeyValueContainer.__str__: " ".join of key, separator and value for each
\* entry (a TypeError when a value is not a string), the lines joined and a
\* line feed added
ContainerStr(c) ==
    IF \E i \in DOMAIN c.dict : c.dict[i][2].t # "str"
    THEN [err |-> "TypeError", text |-> <<>>]
    ELSE [err |-> "none",
          text |-> JoinLines([i \in DOMAIN c.dict |->
                                c.dict[i][1] \o <<" ">> \o c.sep \o <<" ">>
                                    \o c.dict[i][2].s]) \o <<"\n">>]

SetValueAnyway(fld, held, text) ==
    LET made == Container(text, fld.sep) IN
    [err |-> IF made.err = "none" THEN "none" ELSE "ValidationError",
     held |-> made.obj]

\* KeyValueField.set_value for a string: from_db_value turns the ValueError of
\* the container into ValidationError, and nothing is stored then
SetValue(fld, held, text) ==
    LET made == Container(text, fld.sep) IN
    IF made.err = "none" THEN [err |-> "none", held |-> made.obj]
    ELSE [err |-> "ValidationError", held |-> held]

\* KeyValueField.from_db_value
FromDbValue(fld, text) ==
    LET made == Container(text, fld.sep) IN
    [err |-> IF made.err = "none" THEN "none" ELSE "ValidationError", obj |-> made.obj]

\* the separator of a container built without one
DefaultSep == <<"=">>

SetDictWithFieldSep(fld, value) == NewContainer(value, fld.sep, <<>>)

\* KeyValueField.set_value for a dict: KeyValueContainer(value)
SetDict(fld, value) == NewContainer(value, DefaultSep, <<>>)

KvOut(op, err, value, prev) == [op |-> op, err |-> err, value |-> value, prev |-> prev]

EmptyContainer == [sep |-> DefaultSep, dict |-> <<>>]

\* no field under check
KvIdle ==
    /\ kv = [sep |-> DefaultSep, held |-> EmptyContainer, text |-> <<>>, map |-> <<>>,
             origin |-> "none"]
    /\ kvout = KvOut("idle", "none", EmptyContainer, EmptyContainer)

\* a field with some separator on a Team object that holds the empty default or
\* the value of an earlier assignment, and the text about to be assigned
KvInit ==
    /\ \E sep \in Separators, text \in Texts :
       \E held \in {EmptyContainer,
                    Container(<<"b", " ">> \o sep \o <<" ", "b">>, sep).obj} :
          kv = [sep |-> sep, held |-> held, text |-> text, map |-> <<>>,
                origin |-> "none"]
    /\ kvout = KvOut("init", "none", EmptyContainer, EmptyContainer)

\* team.options = text
KvAssign ==
    LET res == SetValue(kv, kv.held, kv.text) IN
    /\ kvout.op = "init"
    /\ kv' = [kv EXCEPT !.held = res.held]
    /\ kvout' = KvOut("assign", res.err, EmptyContainer, kv.held)
    /\ UNCHANGED notKv

\* team.options, read after the assignment
KvRead ==
    /\ kvout.op = "assign"
    /\ kv' = kv
    /\ kvout' = KvOut("read", kvout.err, kv.held, kvout.prev)
    /\ UNCHANGED notKv

KvNext == KvAssign \/ KvRead

\* Entries of the longest mapping given to a container.
MaxItems == 2

MapSeparators == {<<"=">>, <<":">>, <<" ">>}

MapKeys == {<<>>, <<"k">>}

PyValues == {StrVal(<<>>), StrVal(<<"v">>), StrVal(<<"=">>), NoneVal, IntVal}

\* the mappings: up to MaxItems entries with different keys
Maps ==
    {m \in UNION {[1 .. n -> MapKeys \X PyValues] : n \in 0 .. MaxItems} :
        \A i, j \in DOMAIN m : i # j => m[i][1] # m[j][1]}

\* a field with some separator on a Team object and a mapping
KvMapInit ==
    /\ \E sep \in MapSeparators, m \in Maps :
          kv = [sep |-> sep, held |-> EmptyContainer, text |-> <<>>, map |-> m,
                origin |-> "none"]
    /\ kvout = KvOut("init", "none", EmptyContainer, EmptyContainer)

\* a container is there and has not been written out yet
KvOpen == kvout.op \in {"setdict", "build", "setitem", "update"}

\* team.options = d for the mapping d
KvAssignDict ==
    /\ kvout.op = "init"
    /\ kv' = [kv EXCEPT !.held = SetDict(kv, kv.map), !.origin = "assign"]
    /\ kvout' = KvOut("setdict", "none", EmptyContainer, kv.held)
    /\ UNCHANGED notKv

\* KeyValueContainer(d, separator=sep), or KeyValueContainer(separator=sep, **d)
KvBuild(keywords) ==
    /\ kvout.op = "init"
    /\ kv' = [kv EXCEPT !.held = IF keywords THEN NewContainer(<<>>, kv.sep, kv.map)
                                  ELSE NewContainer(kv.map, kv.sep, <<>>),
                        !.origin = "build"]
    /\ kvout' = KvOut("build", "none", EmptyContainer, kv.held)
    /\ UNCHANGED notKv

\* c[key] = item
KvItem(key, item) ==
    /\ KvOpen
    /\ kv' = [kv EXCEPT !.held = KvSetItem(kv.held, key, item), !.origin = "edited"]
    /\ kvout' = KvOut("setitem", "none", EmptyContainer, kv.held)
    /\ UNCHANGED notKv

\* c.update({key: item})
KvUpd(key, item) ==
    /\ KvOpen
    /\ kv' = [kv EXCEPT !.held = KvUpdate(kv.held, <<<<key, item>>>>),
                        !.origin = "edited"]
    /\ kvout' = KvOut("update", "none", EmptyContainer, kv.held)
    /\ UNCHANGED notKv

\* get_prep_value(c): str(c), the text written to the database
KvPrep ==
    LET res == ContainerStr(kv.held) IN
    /\ KvOpen
    /\ kv' = [kv EXCEPT !.text = res.text]
    /\ kvout' = KvOut("prep", res.err, EmptyContainer, kv.held)
    /\ UNCHANGED notKv

\* from_db_value(text) of the text written, and the result put on the object
KvLoad ==
    LET res == FromDbValue(kv, kv.text) IN
    /\ kvout.op = "prep" /\ kvout.err = "none"
    /\ kv' = [kv EXCEPT !.held = IF res.err = "none" THEN res.obj ELSE @]
    /\ kvout' = KvOut("load", res.err, res.obj, kv.held)
    /\ UNCHANGED notKv

KvMapNext ==
    \/ KvAssignDict
    \/ \E keywords \in BOOLEAN : KvBuild(keywords)
    \/ \E key \in MapKeys, item \in PyValues : KvItem(key, item)
    \/ \E key \in MapKeys, item \in PyValues : KvUpd(key, item)
    \/ KvPrep
    \/ KvLoad

(***************************************************************************)
(* UploadTo (model_helpers/upload_to_helpers.py, model_helpers.py).        *)
(***************************************************************************)

\* Characters of the longest uploaded file name.
MaxName == 5

\* the characters the uploaded names are written in
NameChars == {"/", ".", "-", "p", "y", "P"}

FileNames == UNION {[1 .. n -> NameChars] : n \in 0 .. MaxName}

\* UPLOAD_TO_OPTIONS
DefaultBlackList ==
    {<<"p", "h", "p">>, <<"h", "t", "m", "l">>, <<"h", "t", "m">>, <<"j", "s">>,
     <<"v", "b", "s">>, <<"p", "y">>, <<"p", "y", "c">>, <<"a", "s", "p">>,
     <<"a", "s", "p", "x">>, <<"p", "l">>}

DefaultMaxLen == 40

\* "{model_name}/%Y/{filename}.{extension}", field by field
DefaultTemplate == <<"{model_name}", "/", "%Y", "/", "{filename}", ".", "{extension}">>

DefaultOptions ==
    [black_listed_extensions |-> DefaultBlackList,
     max_filename_length |-> DefaultMaxLen,
     file_name_template |-> DefaultTemplate]

\* "{model_name}/%Y/{filename}-{instance.pk}.{extension}", the template the
\* tests put into the settings
TestTemplate ==
    <<"{model_name}", "/", "%Y", "/", "{filename}", "-", "{instance.pk}", ".",
      "{extension}">>

\* no option given
NoOptions == <<>>

\* settings.UPLOAD_TO_OPTIONS: absent, or naming some of the options
SettingsOptions ==
    {NoOptions, [file_name_template |-> TestTemplate, max_filename_length |-> 1]}

\* the keyword options an UploadTo object is built with
KeywordOptions ==
    {NoOptions,
     [max_filename_length |-> 2],
     [black_listed_extensions |-> {<<"P", "Y">>}],
     [file_name_template |-> DefaultTemplate, max_filename_length |-> 3]}

OptionsSettingsFirst(settings, kwargs) == settings @@ kwargs @@ DefaultOptions

\* UploadTo.__init__: the defaults, updated with the settings, updated with the
\* keyword options
InitOptions(settings, kwargs) == kwargs @@ settings @@ DefaultOptions

\* s.lower()
LowerStr(s) == [i \in DOMAIN s |-> Lower(s[i])]

\* os.path.basename
Basename(path) == SubSeq(path, RFindFrom(path, <<"/">>, Len(path)) + 1, Len(path))

GetFileInfoAsGiven(full_filename) ==
    LET parts == RSplit(Basename(full_filename), <<".">>) IN
    IF Len(parts) # 2 THEN [err |-> "ValueError", filename |-> <<>>, extension |-> <<>>]
    ELSE [err |-> "none", filename |-> parts[1], extension |-> parts[2]]

\* UploadTo.get_file_info; a base name without a dot cannot be unpacked into
\* two parts, which is a ValueError
GetFileInfo(full_filename) ==
    LET parts == RSplit(LowerStr(Basename(full_filename)), <<".">>) IN
    IF Len(parts) # 2 THEN [err |-> "ValueError", filename |-> <<>>, extension |-> <<>>]
    ELSE [err |-> "none", filename |-> parts[1], extension |-> parts[2]]

\* UploadTo.validate_file_info
ValidateFileInfo(options, info) ==
    IF info.extension \in options.black_listed_extensions THEN "ValueError" ELSE "none"

IsWord(c) == c \in {"a", "b", "p", "x", "y", "A", "B", "P", "X", "Y", "_"}

RECURSIVE Hyphenate(_)
\* re.sub(r"[-\s]+", "-", s)
Hyphenate(s) ==
    IF s = <<>> THEN <<>>
    ELSE IF Head(s) = "-" \/ IsSpace(Head(s))
         THEN LET rest == Hyphenate(Tail(s)) IN
              IF rest # <<>> /\ Head(rest) = "-" THEN rest ELSE <<"-">> \o rest
         ELSE <<Head(s)>> \o Hyphenate(Tail(s))

RECURSIVE StripEnds(_)
\* s.strip("-_")
StripEnds(s) ==
    IF s # <<>> /\ Head(s) \in {"-", "_"} THEN StripEnds(Tail(s))
    ELSE IF s # <<>> /\ s[Len(s)] \in {"-", "_"} THEN StripEnds(SubSeq(s, 1, Len(s) - 1))
    ELSE s

\* django.utils.text.slugify: lower case, everything but word characters,
\* white space and hyphens removed, runs of white space and hyphens turned
\* into one hyphen, hyphens and underscores stripped from the ends
Slugify(value) ==
    StripEnds(Hyphenate(SelectSeq(LowerStr(value),
                                  LAMBDA c : IsWord(c) \/ IsSpace(c) \/ c = "-")))

\* s[:n]
Prefix(s, n) == SubSeq(s, 1, IF n < Len(s) THEN n ELSE Len(s))

RECURSIVE Format(_, _)
\* strftime(template).format(**values): "%Y" becomes the year and each
\* replacement field its value
Format(template, values) ==
    IF template = <<>> THEN <<>>
    ELSE LET f == Head(template) IN
         (CASE f = "%Y" -> <<"2015">>
            [] f = "{model_name}" -> values.model_name
            [] f = "{instance.pk}" -> values.pk
            [] f = "{filename}" -> values.filename
            [] f = "{extension}" -> values.extension
            [] OTHER -> <<f>>) \o Format(Tail(template), values)

\* UploadTo.generate_file_name for an instance of class FakeModel, whose pk is 1
GenerateFileName(options, info) ==
    Format(options.file_name_template,
           [model_name |-> <<"FakeModel">>,
            pk |-> <<"1">>,
            filename |-> Prefix(Slugify(info.filename), options.max_filename_length),
            extension |-> info.extension])

\* UploadTo.__call__
Call(options, full_filename) ==
    LET info == GetFileInfo(full_filename) IN
    IF info.err # "none" THEN [err |-> info.err, path |-> <<>>]
    ELSE IF ValidateFileInfo(options, info) # "none"
         THEN [err |-> "ValueError", path |-> <<>>]
    ELSE [err |-> "none", path |-> GenerateFileName(options, info)]

UpOut(op, err, path, was) == [op |-> op, err |-> err, path |-> path, was |-> was]

NoCall == [err |-> "none", path |-> <<>>]

\* no upload under check
UpIdle ==
    /\ up = [options |-> DefaultOptions, settings |-> NoOptions, kwargs |-> NoOptions,
             name |-> <<>>]
    /\ upout = UpOut("idle", "none", <<>>, NoCall)

\* the settings, an UploadTo object built with some keyword options, and the
\* name of the file about to be uploaded
UpInit ==
    /\ \E settings \in SettingsOptions, kwargs \in KeywordOptions, name \in FileNames :
          up = [options |-> InitOptions(settings, kwargs), settings |-> settings,
                kwargs |-> kwargs, name |-> name]
    /\ upout = UpOut("init", "none", <<>>, NoCall)

\* the UploadTo object called with the instance and the name
UpCall ==
    LET res == Call(up.options, up.name) IN
    /\ upout.op = "init"
    /\ upout' = UpOut("call", res.err, res.path, NoCall)
    /\ UNCHANGED <<up, notUp>>

\* upload_to(instance, name), the shortcut, called after the object: it builds
\* UploadTo() and calls it
UpShortcut ==
    LET res == Call(InitOptions(up.settings, NoOptions), up.name) IN
    /\ upout.op = "call"
    /\ upout' = UpOut("shortcut", res.err, res.path, [err |-> upout.err, path |-> upout.path])
    /\ UNCHANGED <<up, notUp>>

UpNext == UpCall \/ UpShortcut

(***************************************************************************)
(* Choices (model_helpers/model_choices.py, model_helpers.py).             *)
(***************************************************************************)

\* Choices a constructor call or an update passes at most.
MaxChoices == 2

\* the choices the calls draw from: "b": 1, "a_X": {"id": 2} and
\* "x": {"id": 2, "display": "A_b"}
ChoiceDefs ==
    {[code |-> <<"b">>, bare |-> TRUE, id |-> 1, has_display |-> FALSE,
      display |-> <<>>],
     [code |-> <<"a", "_", "X">>, bare |-> FALSE, id |-> 2, has_display |-> FALSE,
      display |-> <<>>],
     [code |-> <<"x">>, bare |-> FALSE, id |-> 2, has_display |-> TRUE,
      display |-> <<"A", "_", "b">>]}

ChoiceCodes == {d.code : d \in ChoiceDefs}

\* the choices argument: up to MaxChoices definitions with distinct codes
RawChoices ==
    UNION {{raw \in [1 .. n -> ChoiceDefs] :
                \A i, j \in 1 .. n : raw[i].code = raw[j].code => i = j}
           : n \in 0 .. MaxChoices}

OrderBys == {"display", "id", "None"}

\* the dictionary a choice holds once __init__ has gone over it
Options(d) ==
    [code |-> d.code, id |-> d.id,
     display |-> IF d.has_display THEN d.display
                 ELSE Capitalize(Replace(d.code, "_", " "))]

\* the key of list.sort: choice[1] for "display", choice[0] for "id"
Before(x, y, order_by) ==
    IF order_by = "display" THEN StrLess(x[2], y[2]) ELSE x[1] < y[1]

\* an entry put into a sorted list behind the entries not greater than it
Insert(sorted, x, order_by) ==
    LET later == {i \in DOMAIN sorted : Before(x, sorted[i], order_by)}
        at == IF later = {} THEN Len(sorted) + 1
              ELSE CHOOSE i \in later : \A j \in later : i <= j
    IN SubSeq(sorted, 1, at - 1) \o <<x>> \o SubSeq(sorted, at, Len(sorted))

SortListSkipped(list, order_by) == list

RECURSIVE SortList(_, _)
\* choices_list.sort(key=...), a stable sort; no sort for any other order_by
SortList(list, order_by) ==
    IF order_by \notin {"display", "id"} \/ list = <<>> THEN list
    ELSE Insert(SortList(SubSeq(list, 1, Len(list) - 1), order_by),
                list[Len(list)], order_by)

NoIdMap == [built |-> FALSE, map |-> <<>>]

\* Choices(choices, order_by): an empty argument leaves __init__ early, with
\* _read_only still False
NewChoices(raw, order_by) ==
    LET items == [i \in DOMAIN raw |-> Options(raw[i])] IN
    [items |-> items,
     list |-> SortList([i \in DOMAIN items |-> <<items[i].id, items[i].display>>],
                       order_by),
     read_only |-> raw # <<>>,
     order_by |-> order_by,
     choices_id |-> NoIdMap,
     attrs |-> {},
     born |-> IF raw = <<>> THEN "empty" ELSE "choices",
     writes |-> 0]

Keys(obj) == {obj.items[i].code : i \in DOMAIN obj.items}

UpdateUnchecked(obj, other) ==
    [obj |-> [obj EXCEPT !.list = obj.list \o other.list,
                         !.choices_id = NoIdMap,
                         !.items = obj.items \o other.items],
     err |-> IF obj.read_only THEN "TypeError" ELSE "none"]

UpdateResorted(obj, other) ==
    IF obj.read_only THEN [obj |-> obj, err |-> "TypeError"]
    ELSE IF Keys(other) \cap Keys(obj) # {} THEN [obj |-> obj, err |-> "ValueError"]
    ELSE [obj |-> [obj EXCEPT !.list = SortList(obj.list \o other.list, "id"),
                              !.choices_id = NoIdMap,
                              !.items = obj.items \o other.items],
          err |-> "none"]

\* update(new_data) with new_data already a Choices object
Update(obj, other) ==
    IF obj.read_only THEN [obj |-> obj, err |-> "TypeError"]
    ELSE IF Keys(other) \cap Keys(obj) # {} THEN [obj |-> obj, err |-> "ValueError"]
    ELSE [obj |-> [obj EXCEPT !.list = obj.list \o other.list,
                              !.choices_id = NoIdMap,
                              !.items = obj.items \o other.items],
          err |-> "none"]

\* copy(): a new writable object given the entries of this one
Copy(obj) ==
    [Update(NewChoices(<<>>, obj.order_by), obj).obj EXCEPT
        !.born = "add", !.writes = 0]

\* self + other: what the call leaves of self and of other, and the result if
\* there is one (an exception leaves the with block before self is locked)
Add(self, other) ==
    LET res == Update(Copy(self), other) IN
    IF res.err = "none"
    THEN [self |-> [self EXCEPT !.read_only = TRUE], other |-> other,
          result |-> [res.obj EXCEPT !.read_only = TRUE], err |-> "none"]
    ELSE [self |-> [self EXCEPT !.read_only = FALSE], other |-> other,
          result |-> res.obj, err |-> res.err]

\* obj.name = value
SetAttr(obj, name, value) ==
    IF obj.read_only /\ name \in Keys(obj) THEN [obj |-> obj, err |-> "TypeError"]
    ELSE [obj |-> [obj EXCEPT !.attrs =
                      {a \in obj.attrs : a[1] # name} \cup {<<name, value>>}],
          err |-> "none"]

\* obj[code] = options
SetItem(obj, code, options) ==
    IF obj.read_only THEN [obj |-> obj, err |-> "TypeError"]
    ELSE LET item == [code |-> code, id |-> options.id, display |-> options.display]
         IN [obj |-> [obj EXCEPT
                        !.items = IF code \in Keys(obj)
                                  THEN [i \in DOMAIN obj.items |->
                                          IF obj.items[i].code = code
                                          THEN item ELSE obj.items[i]]
                                  ELSE Append(obj.items, item)],
             err |-> "none"]

\* {item["id"]: (key, item) for key, item in self.items()}: the last item of
\* an id is the one kept
IdMap(items) ==
    [id \in {items[i].id : i \in DOMAIN items} |->
        items[CHOOSE i \in DOMAIN items :
                /\ items[i].id = id
                /\ \A j \in DOMAIN items : items[j].id = id => j <= i]]

GetValueFirst(obj, id, key) ==
    LET hit == {i \in DOMAIN obj.items : obj.items[i].id = id} IN
    IF hit = {} THEN [obj |-> obj, err |-> "KeyError", value |-> <<>>]
    ELSE [obj |-> obj, err |-> "none",
          value |-> obj.items[CHOOSE i \in hit : \A j \in hit : i <= j][key]]

\* get_value(choice_id, choice_key); key "code" stands for choice_key=None
GetValue(obj, id, key) ==
    LET map == IF obj.choices_id.built THEN obj.choices_id.map ELSE IdMap(obj.items)
        after == [obj EXCEPT !.choices_id = [built |-> TRUE, map |-> map]]
    IN IF id \notin DOMAIN map THEN [obj |-> after, err |-> "KeyError", value |-> <<>>]
       ELSE [obj |-> after, err |-> "none", value |-> map[id][key]]

\* the value the tests try to assign (choices1.X = 7, {"X": 7})
NewValue == 7

\* Writes (item or attribute assignment, update) that go through on one object.
MaxWrites == 1

\* no object yet
NoChoices ==
    [items |-> <<>>, list |-> <<>>, read_only |-> TRUE, order_by |-> "None",
     choices_id |-> NoIdMap, attrs |-> {}, born |-> "none", writes |-> 0]

COut(op, arg, err, value, other) ==
    [op |-> op, arg |-> arg, err |-> err, value |-> value, other |-> other]

ChInit ==
    /\ ch = NoChoices
    /\ cout = COut("init", <<>>, "none", NoChoices, NoChoices)

\* a write may be tried when it will be refused or fewer than MaxWrites went
\* through
Writable(obj) == obj.born # "none" /\ (obj.read_only \/ obj.writes < MaxWrites)

\* the object after a write: one that went through is counted
Written(res) ==
    IF res.err = "none" THEN [res.obj EXCEPT !.writes = @ + 1] ELSE res.obj

\* a = Choices(raw, order_by)
ChConstruct(raw, order_by) ==
    /\ ch.born = "none"
    /\ ch' = NewChoices(raw, order_by)
    /\ cout' = COut("new", <<>>, "none", NoChoices, NoChoices)
    /\ UNCHANGED notCh

\* a + Choices(raw, order_by): the outcome holds the right operand as it was
\* built, the sum, and the right operand as the call left it
ChAdd(raw, order_by) ==
    LET other == NewChoices(raw, order_by)
        res == Add(ch, other)
    IN
    /\ ch.born # "none"
    /\ ch' = res.self
    /\ cout' = COut("add", other, res.err,
                    IF res.err = "none" THEN res.result ELSE NoChoices, res.other)
    /\ UNCHANGED notCh

\* a.update(raw): a dict or list is made a Choices object first
ChUpdate(raw) ==
    LET other == NewChoices(raw, "display")
        res == Update(ch, other)
    IN
    /\ Writable(ch)
    /\ ch' = Written(res)
    /\ cout' = COut("update", other, res.err, NoChoices, other)
    /\ UNCHANGED notCh

\* a.code = NewValue for one of the object's choice codes
ChSetAttr(code) ==
    LET res == SetAttr(ch, code, NewValue) IN
    /\ code \in Keys(ch)
    /\ Writable(ch)
    /\ ch' = Written(res)
    /\ cout' = COut("setattr", code, res.err, NoChoices, NoChoices)
    /\ UNCHANGED notCh

\* a[code] = {"id": NewValue, "display": "X"}
ChSetItem(code) ==
    LET res == SetItem(ch, code, [id |-> NewValue, display |-> <<"X">>]) IN
    /\ Writable(ch)
    /\ ch' = Written(res)
    /\ cout' = COut("setitem", code, res.err, NoChoices, NoChoices)
    /\ UNCHANGED notCh

\* a = a.copy(): the program goes on with the copy
ChCopy ==
    /\ ch.born # "none"
    /\ ch' = [Copy(ch) EXCEPT !.born = "copy", !.writes = ch.writes]
    /\ cout' = COut("copy", <<>>, "none", NoChoices, NoChoices)
    /\ UNCHANGED notCh

\* a()
ChCall ==
    /\ ch.born # "none"
    /\ ch' = ch
    /\ cout' = COut("call", <<>>, "none", ch.list, NoChoices)
    /\ UNCHANGED notCh

\* a.get_code_name(id), a.get_value(id, "id"), a.get_display_name(id)
ChGetValue(id, key) ==
    LET res == GetValue(ch, id, key) IN
    /\ ch.born # "none"
    /\ ch' = res.obj
    /\ cout' = COut("get", <<id, key>>, res.err, res.value, NoChoices)
    /\ UNCHANGED notCh

\* building, adding, updating and reading
ChNext ==
    \/ \E raw \in RawChoices, order_by \in OrderBys : ChConstruct(raw, order_by)
    \/ \E raw \in RawChoices, order_by \in OrderBys : ChAdd(raw, order_by)
    \/ \E raw \in RawChoices : ChUpdate(raw)
    \/ ChCall
    \/ \E id \in {d.id : d \in ChoiceDefs} \cup {NewValue},
          key \in {"code", "id", "display"} : ChGetValue(id, key)

\* building, adding and every way of writing to the object
ChWriteNext ==
    \/ \E raw \in RawChoices, order_by \in OrderBys : ChConstruct(raw, order_by)
    \/ \E raw \in RawChoices, order_by \in OrderBys : ChAdd(raw, order_by)
    \/ \E raw \in RawChoices : ChUpdate(raw)
    \/ \E code \in ChoiceCodes : ChSetAttr(code)
    \/ \E code \in ChoiceCodes : ChSetItem(code)
    \/ ChCopy
    \/ ChCall

InitEnc == EncInit /\ GfkInit /\ PropIdle /\ FnIdle /\ ChInit /\ KvIdle /\ UpIdle

NextEnc == EncStore \/ EncLoad

SpecEnc == InitEnc /\ [][NextEnc]_vars

InitGfk ==
    enc = EncIdle /\ GfkInit /\ PropIdle /\ FnIdle /\ ChInit /\ KvIdle /\ UpIdle

SpecGfk == InitGfk /\ [][GfkNext]_vars

InitProp ==
    enc = EncIdle /\ GfkInit /\ PropInit /\ FnIdle /\ ChInit /\ KvIdle /\ UpIdle

SpecProp == InitProp /\ [][PropNext]_vars

SpecPropTwo == InitProp /\ [][PropTwoNext]_vars

InitFn ==
    /\ enc = EncIdle /\ GfkInit /\ pcfg = PropOff /\ pout = POutInit /\ FnInit
    /\ ChInit /\ KvIdle /\ UpIdle

SpecFn == InitFn /\ [][FnNext]_vars

InitCh ==
    enc = EncIdle /\ GfkInit /\ PropIdle /\ FnIdle /\ ChInit /\ KvIdle /\ UpIdle

SpecCh == InitCh /\ [][ChNext]_vars

SpecChWrite == InitCh /\ [][ChWriteNext]_vars

InitKv ==
    /\ enc = EncIdle /\ GfkInit /\ PropIdle /\ FnIdle /\ ChInit /\ KvInit /\ UpIdle

SpecKv == InitKv /\ [][KvNext]_vars

InitKvMap ==
    /\ enc = EncIdle /\ GfkInit /\ PropIdle /\ FnIdle /\ ChInit /\ KvMapInit /\ UpIdle

SpecKvMap == InitKvMap /\ [][KvMapNext]_vars

InitUp ==
    /\ enc = EncIdle /\ GfkInit /\ PropIdle /\ FnIdle /\ ChInit /\ KvIdle /\ UpInit

SpecUp == InitUp /\ [][UpNext]_vars

(***************************************************************************)
(* Claims about the generic foreign key.                                   *)
(***************************************************************************)

\* C1: for every index and primary key that fit the bit widths, packing the
\* pair (index in the high bits, primary key in the low bits) and unpacking the
\* stored integer gives back the same pair, and no other valid pair packs to
\* the same integer.
C1_EncodeRoundTrip ==
    /\ enc.phase = "loaded" => (enc.dIndex = enc.index /\ enc.dPk = enc.pk)
    /\ enc.phase \in {"stored", "loaded"} =>
          \A i \in ValidIndexes, p \in ValidPks :
              Encode(i, p) = enc.stored => (i = enc.index /\ p = enc.pk)

\* the reference 257 of the tests: registry index 1, primary key 1
C1_Witness ==
    /\ enc.phase = "loaded"
    /\ enc.stored = 257
    /\ enc.dIndex = 1
    /\ enc.dPk = 1

RegistryUnique ==
    \A i \in RegIndexes : Cardinality({m \in Models : <<i, m>> \in registry}) <= 1

\* C2: no index ever maps to more than one model, and registering under an
\* index that is taken fails with AssertionError and leaves the registry as it
\* was.
C2_RegistryUnique ==
    /\ []RegistryUnique
    /\ [][(gout'.op = "register" /\ IndexTaken(registry, gout'.val)) =>
             (gout'.err = "AssertionError" /\ registry' = registry)]_vars

\* ModelX was refused index 1, which ModelA holds
C2_Witness ==
    /\ gout.op = "register"
    /\ gout.val = 1
    /\ gout.cls = "ModelX"
    /\ gout.err = "AssertionError"
    /\ <<1, "ModelA">> \in registry
    /\ <<2, "ModelB">> \in registry

\* C3: a held record is returned by link__obj without a query, even when its
\* row is gone; assigning a reference value drops the held record, and the next
\* link__obj read queries (DoesNotExist when the row is gone); reading link or
\* link__class, validating and saving never query.
C3_LazyResolution ==
    [][/\ (gout'.op = "read_obj" /\ rel.held # NoObj) =>
            /\ gout'.obj = rel.held
            /\ ~gout'.queried
            /\ gout'.err = "none"
            /\ rel' = rel
       /\ (gout'.op = "assign_value" /\ gout'.err = "none") => rel'.held = NoObj
       /\ (gout'.op = "read_obj" /\ rel.link # Null /\ rel.held = NoObj) =>
            /\ gout'.queried
            /\ IF TargetOf(registry, rel.link) \in rows
               THEN gout'.obj = TargetOf(registry, rel.link) /\ gout'.err = "none"
               ELSE gout'.err = "DoesNotExist"
       /\ gout'.op \in {"read_link", "read_class", "full_clean", "save"} =>
            ~gout'.queried /\ gout'.err = "none"
      ]_vars

\* link__obj served the held record although its row has been deleted
C3_Witness ==
    /\ gout.op = "read_obj"
    /\ gout.obj # NoObj
    /\ gout.obj \notin rows
    /\ ~gout.queried
    /\ gout.err = "none"

\* C4: a null reference has no target class and no target object, and reading
\* it neither looks anything up nor raises.
C4_NullReference ==
    rel.link = Null =>
        /\ rel.held = NoObj
        /\ gout.op \in {"read_obj", "read_class", "read_link"} =>
              /\ gout.val = Null
              /\ gout.cls = "None"
              /\ gout.obj = NoObj
              /\ gout.err = "none"
              /\ ~gout.queried

\* link__obj read on a null reference while targets are registered and stored
C4_Witness ==
    /\ rel.link = Null
    /\ gout.op = "read_obj"
    /\ registry # {}
    /\ rows # {}

(***************************************************************************)
(* Claims about cached_model_property.                                     *)
(***************************************************************************)

\* the entry the backend holds under a key, if any
Entry(c, key) == IF key \in DOMAIN c THEN c[key] ELSE [value |-> Null, ttl |-> -1]

\* a read that was served from the cache
ReadHit(k) ==
    /\ pout'.calls = 0
    /\ pout'.value = cache[k].value
    /\ cache' = cache

\* a read that called the decorated method once and cached its result
ReadMiss(k) ==
    /\ pout'.calls = 1
    /\ k \in DOMAIN cache'
    /\ cache'[k].value = pout'.value

\* C5 as stated: a read finding a live entry returns the stored value without
\* calling the method; any other read calls it once and stores the result.
C5_AsStated ==
    [][pout'.op = "read" =>
          LET k == PropKey(pcfg, pout'.obj) IN
          IF Live(cache, k) THEN ReadHit(k) ELSE ReadMiss(k)]_vars

\* C5, amended: a read finding a live entry whose value is not None returns the
\* stored value without calling the method; any other read (no entry, an expired
\* entry, a stored None) calls the method once and stores the result.
C5_ReadCaches ==
    [][pout'.op = "read" =>
          LET k == PropKey(pcfg, pout'.obj) IN
          IF Live(cache, k) /\ cache[k].value # Null THEN ReadHit(k) ELSE ReadMiss(k)]_vars

\* team1_new is served the value cached by an earlier read on primary key 1
C5_Witness ==
    /\ pout.op = "read"
    /\ pout.obj = 2
    /\ pout.calls = 0
    /\ pout.value # Null
    /\ pout.was = "live"
    /\ pout.prev = <<"read", 1>>

\* C6: objects with the same primary key see the same cached value, and a
\* read, assignment or delete on one primary key leaves the entry of every
\* other primary key as it was.
C6_IsolationByPk ==
    [][pout'.op \in {"read", "set", "del"} =>
          /\ \A o \in Teams :
                TeamPk(o) # TeamPk(pout'.obj) =>
                    Entry(cache', PropKey(pcfg, o)) = Entry(cache, PropKey(pcfg, o))
          /\ \A o \in Teams :
                TeamPk(o) = TeamPk(pout'.obj) =>
                    Entry(cache', PropKey(pcfg, o))
                        = Entry(cache', PropKey(pcfg, pout'.obj))]_vars

\* team1 was assigned a value: team1_new sees it, team2 keeps its own
C6_Witness ==
    /\ pout.op = "set"
    /\ pout.obj = 1
    /\ pout.err = "none"
    /\ pout.value # Null
    /\ CacheGet(cache, PropKey(pcfg, 2)) = pout.value
    /\ CacheGet(cache, PropKey(pcfg, 3)) # Null
    /\ CacheGet(cache, PropKey(pcfg, 3)) # pout.value

\* C7: del leaves no entry for the property and primary key and touches no
\* other entry (nothing at all when nothing was cached); the next read on that
\* primary key calls the method exactly once and caches the result.
C7_Delete ==
    [][/\ pout'.op = "del" =>
            LET k == PropKey(pcfg, pout'.obj) IN
            /\ k \notin DOMAIN cache'
            /\ \A k2 \in DOMAIN cache \ {k} : Entry(cache', k2) = cache[k2]
            /\ DOMAIN cache' \subseteq DOMAIN cache
            /\ pout'.err = "none"
       /\ (pout.op = "del" /\ pout'.op = "read"
              /\ TeamPk(pout'.obj) = TeamPk(pout.obj)) =>
            ReadMiss(PropKey(pcfg, pout'.obj))
      ]_vars

\* a read after del on the same primary key called the method again
C7_Witness ==
    /\ pout.op = "read"
    /\ pout.obj = 1
    /\ pout.prev = <<"del", 1>>
    /\ pout.calls = 1
    /\ pout.was = "absent"
    /\ CacheGet(cache, PropKey(pcfg, 2)) = pout.value

\* C8 as stated: an assignment to a writable property stores the value, and
\* the read that follows on that primary key, the entry not having expired,
\* returns it without calling the method.
C8_AsStated ==
    [][/\ (pout'.op = "set" /\ ~pcfg.readonly) =>
            Entry(cache', PropKey(pcfg, pout'.obj))
                = [value |-> pout'.value, ttl |-> Ttl(pcfg.timeout)]
       /\ (pout.op = "set" /\ pout.err = "none" /\ pout'.op = "read"
              /\ TeamPk(pout'.obj) = TeamPk(pout.obj)
              /\ EntryState(cache, PropKey(pcfg, pout.obj)) = "live") =>
            (pout'.value = pout.value /\ pout'.calls = 0)
      ]_vars

\* C8, amended: an assignment to a writable property stores the value; when
\* the value is not None the read that follows on that primary key, the entry
\* not having expired, returns it without calling the method, and when it is
\* None that read calls the method.
C8_Write ==
    [][/\ (pout'.op = "set" /\ ~pcfg.readonly) =>
            Entry(cache', PropKey(pcfg, pout'.obj))
                = [value |-> pout'.value, ttl |-> Ttl(pcfg.timeout)]
       /\ (pout.op = "set" /\ pout.err = "none" /\ pout'.op = "read"
              /\ TeamPk(pout'.obj) = TeamPk(pout.obj)
              /\ EntryState(cache, PropKey(pcfg, pout.obj)) = "live") =>
            IF pout.value # Null
            THEN pout'.value = pout.value /\ pout'.calls = 0
            ELSE pout'.calls = 1
      ]_vars

\* a read on primary key 1 returned the value just assigned there
C8_Witness ==
    /\ ~pcfg.readonly
    /\ pout.op = "read"
    /\ pout.obj = 2
    /\ pout.prev = <<"set", 1>>
    /\ pout.calls = 0
    /\ pout.value # Null

\* an entry is written with cache_timeout, or the backend's default when
\* cache_timeout is None
StoredWithTimeout ==
    ((pout'.op = "read" /\ pout'.calls = 1) \/ (pout'.op = "set" /\ pout'.err = "none")) =>
        Entry(cache', PropKey(pcfg, pout'.obj)).ttl
            = IF pcfg.timeout = Null THEN DefaultTimeout ELSE pcfg.timeout

\* a second passing takes one second off every live entry
AgesBySecond ==
    pout'.op = "tick" =>
        /\ DOMAIN cache' = DOMAIN cache
        /\ \A k \in DOMAIN cache :
              /\ cache'[k].value = cache[k].value
              /\ cache'[k].ttl = IF cache[k].ttl > 0 THEN cache[k].ttl - 1 ELSE 0

\* C9 as stated: entries are written with cache_timeout (the default when it
\* is None), a read before expiry is served the stored value, and a read after
\* expiry calls the method again and caches the result.
C9_AsStated ==
    [][/\ StoredWithTimeout
       /\ AgesBySecond
       /\ pout'.op = "read" =>
            LET k == PropKey(pcfg, pout'.obj) IN
            CASE EntryState(cache, k) = "live" -> ReadHit(k)
              [] EntryState(cache, k) = "expired" -> ReadMiss(k)
              [] OTHER -> TRUE
      ]_vars

\* C9, amended: as stated, for a stored value other than None (a stored None
\* is never served, before or after expiry).
C9_Timeout ==
    [][/\ StoredWithTimeout
       /\ AgesBySecond
       /\ pout'.op = "read" =>
            LET k == PropKey(pcfg, pout'.obj) IN
            CASE EntryState(cache, k) = "live" /\ cache[k].value # Null -> ReadHit(k)
              [] EntryState(cache, k) = "live" -> ReadMiss(k)
              [] EntryState(cache, k) = "expired" -> ReadMiss(k)
              [] OTHER -> TRUE
      ]_vars

\* with cache_timeout=1 a read found its entry expired and cached a new result
C9_Witness ==
    /\ pcfg.timeout = 1
    /\ pout.op = "read"
    /\ pout.was = "expired"
    /\ pout.calls = 1
    /\ pout.prev = <<"tick", 0>>
    /\ Entry(cache, PropKey(pcfg, pout.obj)).ttl = 1

\* an operation that left a value under the key of its object: a read, or an
\* assignment that was accepted
LeftValue == pout.op \in {"read", "set"} /\ pout.err = "none"

\* the step is a read of the property under the key the last operation used
ReadsSameKey ==
    /\ pout'.op = "read"
    /\ pout.obj # 0
    /\ PropKey(pcfg, pout'.obj) = PropKey(pcfg, pout.obj)

\* C26: when the decorated method returned None, or None was assigned to a
\* writable property, the next read of that property calls the method again,
\* and so does every read after it for as long as None comes back; any other
\* result or assigned value, the falsy 0 included, is stored and the next
\* read returns it without calling the method while the entry is live.
C26_NoneNotServed ==
    [][(LeftValue /\ ReadsSameKey) =>
          LET k == PropKey(pcfg, pout'.obj) IN
          IF pout.value = Null
          THEN pout'.calls = 1
          ELSE /\ Entry(cache, k).value = pout.value
               /\ Live(cache, k) => (pout'.calls = 0 /\ pout'.value = pout.value)]_vars

\* a read found a live entry holding None, left by a read or an assignment
\* just before, and called the method again
C26_Witness ==
    /\ pout.op = "read"
    /\ pout.prev[1] \in {"read", "set"}
    /\ pout.was = "live"
    /\ pout.calls = 1

\* C28 as stated: an operation on an object of one model leaves the cached
\* property of every object of another model as it was, equal primary keys
\* and an inherited method included, under both implementations.
C28_AsStated ==
    [][\A o \in PropObjs :
          (pout'.obj # 0 /\ TableOf(o) # TableOf(pout'.obj)) =>
              Entry(cache', PropKey(pcfg, o)) = Entry(cache, PropKey(pcfg, o))]_vars

(***************************************************************************)
(* Claims about cached_function.                                           *)
(***************************************************************************)

\* two bindings give the same value to each of the named parameters
Agree(fa1, fa2, names) == \A n \in names : Bound(fa1, n) = Bound(fa2, n)

\* two bindings differ in a parameter that is not among the named ones
DifferOutside(fa1, fa2, names) ==
    \E n \in (ArgNames(fa1) \ names) \ {"self", "cls"} : Bound(fa1, n) # Bound(fa2, n)

\* C10 as stated: with key_parameters given, a call that agrees with the call
\* before it on every listed parameter (the key class attribute unchanged) and
\* differs in an unlisted one uses the same cache entry: it returns the cached
\* result and the wrapped function is not executed.
C10_AsStated ==
    [][(/\ fout.op = "call" /\ fout.err = "none"
        /\ fout'.op = "call" /\ fout'.err = "none"
        /\ fcfg.cf.key_parameters.given
        /\ Agree(fout.fa, fout'.fa, fcfg.cf.key_parameters.names)
        /\ DifferOutside(fout.fa, fout'.fa, fcfg.cf.key_parameters.names))
       => (/\ fout'.key = fout.key
           /\ ~fout'.executed
           /\ fout'.value = fout.value)]_vars

\* the parameters a decoration is meant to key on: the listed ones, or every
\* parameter the caller passes when no list is given
KeyParamsOf(cf, fn) ==
    IF cf.key_parameters.given THEN cf.key_parameters.names ELSE Explicit(fn)

\* the bindings of every way of writing a call with every argument value
Bindings(fn) ==
    {GetCallArgs(fn, MakeCall(fn, form, asg)) :
        form \in CallForms(fn), asg \in [Explicit(fn) -> ArgVals]}

\* the key attribute of the object as the key computation reads it
AttrsNow == [x \in {AttrName} |-> PyInt(field)]

\* calls that differ in the value of a key parameter have different keys
KeysDistinct ==
    \A fa1, fa2 \in Bindings(fcfg.fn) :
        (KeyError(fcfg.cf, fa1) = "none"
            /\ ~Agree(fa1, fa2, KeyParamsOf(fcfg.cf, fcfg.fn))) =>
        GetCacheKey(fcfg.cf, fcfg.fn, fa1, AttrsNow)
            # GetCacheKey(fcfg.cf, fcfg.fn, fa2, AttrsNow)

\* C11: calls that differ in the value of a key parameter use different cache
\* keys; a call touches no entry but the one under its own key; it is served
\* from the cache exactly when its key holds an entry, and otherwise executes
\* the function and caches the result under its key.
C11_KeyedByArguments ==
    /\ []KeysDistinct
    /\ [][(fout'.op = "call" /\ fout'.err = "none") =>
            /\ \A k \in DOMAIN cache \ {fout'.key} :
                  k \in DOMAIN cache' /\ cache'[k] = cache[k]
            /\ IF fout'.key \in DOMAIN cache
               THEN /\ ~fout'.executed
                    /\ fout'.value = cache[fout'.key].value
                    /\ cache' = cache
               ELSE /\ fout'.executed
                    /\ fout'.value = Body(fcfg.fn, fout'.fa, field)
                    /\ fout'.key \in DOMAIN cache'
                    /\ cache'[fout'.key].value = fout'.value
          ]_vars

\* cached_func1(1, 1) is served its cached 2 while the 3 of cached_func1(2, 1)
\* is cached next to it
C11_Witness ==
    /\ fcfg.fn = FnStatic
    /\ ~fcfg.cf.key_parameters.given
    /\ fout.op = "call"
    /\ ~fout.executed
    /\ fout.value = 2
    /\ Cardinality(DOMAIN cache) = 2
    /\ \E k \in DOMAIN cache : k # fout.key /\ cache[k].value = 3

\* a call on a method whose decoration lists the key class attribute
MethodCall ==
    /\ fout'.op = "call"
    /\ fout'.err = "none"
    /\ fcfg.fn.implicit = 1

\* the key of the call records the value the attribute has now
KeyRecordsAttr(key) ==
    \E i \in DOMAIN key[3] : key[3][i] = <<"class." \o AttrName, ToString(field)>>

\* C12 as stated: the first call on a method after the listed attribute was
\* given another value executes the wrapped function.
C12_AsStated ==
    [][(MethodCall /\ fout.op = "setattr") => fout'.executed]_vars

\* C12, amended: the key of a method call records the current value of the
\* listed attribute, so a call is only served a result cached under that same
\* value (A.sum always returns a + self.b for the current b); the first call
\* after the attribute changed to a value under which nothing is cached
\* executes the function, and a call is served from the cache exactly when a
\* result is cached under its arguments and the current attribute value.
C12_ClassAttrs ==
    [][MethodCall =>
          /\ KeyRecordsAttr(fout'.key)
          /\ fout'.executed <=> fout'.key \notin DOMAIN cache
          /\ (fout.op = "setattr" /\ \A k \in DOMAIN cache : ~KeyRecordsAttr(k)) =>
                fout'.executed
          /\ (/\ fcfg.fn = FnMethod
              /\ (~fcfg.cf.key_parameters.given
                    \/ "a" \in fcfg.cf.key_parameters.names)) =>
                fout'.value = Bound(fout'.fa, "a").v + field
      ]_vars

\* A.sum was called again after b changed from 1 to 2: it was executed and
\* both results are cached
C12_Witness ==
    /\ fcfg.fn = FnMethod
    /\ field = 2
    /\ fout.op = "call"
    /\ fout.executed
    /\ fout.value = Bound(fout.fa, "a").v + 2
    /\ \E k \in DOMAIN cache :
          /\ k # fout.key
          /\ k[3] = [i \in DOMAIN k[3] |->
                        IF fout.key[3][i][1] = "class." \o AttrName
                        THEN <<"class." \o AttrName, "1">> ELSE fout.key[3][i]]

\* C25: a call that binds a parameter named self or cls while key_class_attrs
\* is None fails with AssertionError, the wrapped function is not executed and
\* the cache is left as it was; a call that binds neither (a static method)
\* goes through without key_class_attrs and its result is in the cache
\* afterwards.
C25_MethodsNeedAttrs ==
    [][(fout'.op = "call" /\ ~fcfg.cf.key_class_attrs.given) =>
          IF \E i \in DOMAIN fout'.fa : fout'.fa[i][1] \in {"self", "cls"}
          THEN /\ fout'.err = "AssertionError"
               /\ ~fout'.executed
               /\ cache' = cache
          ELSE /\ fout'.err = "none"
               /\ fout'.key \in DOMAIN cache'
               /\ cache'[fout'.key].value = fout'.value
      ]_vars

\* the class method cached_func3, decorated without key_class_attrs, was
\* called and failed
C25_Witness ==
    /\ fcfg.fn = FnClass
    /\ ~fcfg.cf.key_class_attrs.given
    /\ fout.op = "call"
    /\ fout.err = "AssertionError"
    /\ cache = NoCache

\* the bindings of two calls give every parameter the same value
SameBindings(fa1, fa2) ==
    /\ ArgNames(fa1) = ArgNames(fa2)
    /\ \A n \in ArgNames(fa1) : Bound(fa1, n) = Bound(fa2, n)

\* C27, as stated: two calls that bind the same values to the same parameters
\* (the key class attribute unchanged between them) get the same cache key,
\* whether the arguments are passed positionally or by keyword and in
\* whichever order the keyword arguments are written.
C27_AsStated ==
    [][(/\ fout.op = "call" /\ fout.err = "none"
        /\ fout'.op = "call" /\ fout'.err = "none"
        /\ SameBindings(fout.fa, fout'.fa))
       => fout'.key = fout.key]_vars

(***************************************************************************)
(* Claims about Choices.                                                   *)
(***************************************************************************)

\* C13 as stated: on an object built from a non-empty set of choices an item
\* assignment, an attribute assignment to one of its choice codes and update()
\* each raise TypeError and leave the keys, the per-choice dictionaries and the
\* choice list as they were.
C13_AsStated ==
    [][(cout'.op \in {"setitem", "setattr", "update"} /\ ch.born = "choices") =>
          /\ cout'.err = "TypeError"
          /\ ch'.items = ch.items
          /\ ch'.list = ch.list]_vars

\* C14: a + b succeeding gives an object whose list is a's list followed by
\* b's list, neither re-sorted, and whose keys are a's followed by b's; the
\* keys, dictionaries and lists of a and of b are as they were before.
C14_Concatenation ==
    [][(cout'.op = "add" /\ cout'.err = "none") =>
          /\ cout'.value.list = ch.list \o cout'.arg.list
          /\ Keys(cout'.value) = Keys(ch) \cup Keys(cout'.arg)
          /\ cout'.value.items = ch.items \o cout'.arg.items
          /\ ch'.items = ch.items
          /\ ch'.list = ch.list
          /\ cout'.other.items = cout'.arg.items
          /\ cout'.other.list = cout'.arg.list]_vars

\* a sum of three choices whose list is in display order within each operand
\* but not as a whole
C14_Witness ==
    /\ cout.op = "add"
    /\ cout.err = "none"
    /\ Len(cout.value.list) = 3
    /\ ch.list # <<>>
    /\ cout.other.list # <<>>
    /\ ch.order_by = "display"
    /\ cout.other.order_by = "display"
    /\ \E i \in 1 .. 2 : StrLess(cout.value.list[i + 1][2], cout.value.list[i][2])

\* C15: a + b, and update on an object that accepts writes, with a choice code
\* on both sides raises ValueError, gives no combined object and leaves the
\* keys, dictionaries and list of the object as they were.
C15_SharedKey ==
    [][(/\ cout'.op \in {"add", "update"}
        /\ Keys(ch) \cap Keys(cout'.arg) # {}
        /\ cout'.op = "update" => ~ch.read_only) =>
          /\ cout'.err = "ValueError"
          /\ cout'.value = NoChoices
          /\ ch'.items = ch.items
          /\ ch'.list = ch.list]_vars

\* update on a writable object holding choices was refused for a shared code
C15_Witness ==
    /\ cout.op = "update"
    /\ cout.err = "ValueError"
    /\ ch.items # <<>>
    /\ ~ch.read_only
    /\ Keys(cout.arg) \cap Keys(ch) # {}

\* the (id, display) pairs of the choices, in definition order
PairsOf(items) == [i \in DOMAIN items |-> <<items[i].id, items[i].display>>]

\* the list holds exactly one pair for every choice
OnePairEach(obj) ==
    /\ Len(obj.list) = Len(obj.items)
    /\ \E p \in Perms(DOMAIN obj.items) :
          \A i \in DOMAIN obj.items : obj.list[i] = PairsOf(obj.items)[p[i]]

\* the list is in the order order_by asks for
InOrder(obj) ==
    CASE obj.order_by = "display" ->
            \A i, j \in DOMAIN obj.list :
                i < j => ~StrLess(obj.list[j][2], obj.list[i][2])
      [] obj.order_by = "id" ->
            \A i, j \in DOMAIN obj.list : i < j => obj.list[i][1] <= obj.list[j][1]
      [] OTHER -> obj.list = PairsOf(obj.items)

\* the dictionaries "b": 1, "a_X": {"id": 2} and "x": {"id": 2, "display":
\* "A_b"} are to become
Expected ==
    {[code |-> <<"b">>, id |-> 1, display |-> <<"B">>],
     [code |-> <<"a", "_", "X">>, id |-> 2, display |-> <<"A", " ", "x">>],
     [code |-> <<"x">>, id |-> 2, display |-> <<"A", "_", "b">>]}

CalledAsClaimed(obj) ==
    /\ OnePairEach(obj)
    /\ InOrder(obj)
    /\ obj.writes = 0 => \A i \in DOMAIN obj.items : obj.items[i] \in Expected

\* C16 as stated: every Choices object, a sum or an updated object included,
\* returns one pair per choice in the order its order_by asks for.
C16_AsStated ==
    /\ CalledAsClaimed(ch)
    /\ (cout.op = "add" /\ cout.err = "none") => CalledAsClaimed(cout.value)

\* C16, amended: an object built by the constructor and not written to since
\* returns one (id, display) pair per choice, ascending by display for order_by
\* "display", ascending by id for "id", in definition order for None; a bare
\* value v has become {"id": v} and a missing display the code with underscores
\* replaced by spaces, capitalized.
C16_Ordering ==
    /\ (ch.born \in {"choices", "empty"} /\ ch.writes = 0) => CalledAsClaimed(ch)
    /\ cout.op = "call" => cout.value = ch.list

\* "a_X" and "b" defined in the other order are returned by display name
C16_Witness ==
    /\ cout.op = "call"
    /\ ch.born = "choices"
    /\ ch.writes = 0
    /\ ch.order_by = "display"
    /\ cout.value = <<<<2, <<"A", " ", "x">>>>, <<1, <<"B">>>>>>
    /\ ch.items[1].code = <<"b">>

C22_AsStated ==
    /\ ch.born # "none" => ch.read_only
    /\ cout.op = "add" /\ cout.err = "none" => cout.value.read_only
    /\ cout.op \in {"setitem", "update"} => cout.err = "TypeError"

\* C23, as stated: after a + b the left operand is read-only again, whether the
\* sum was returned or ValueError was raised for a shared key, and a returned
\* sum is read-only.
C23_AsStated ==
    [][cout'.op = "add" /\ ch.born = "choices" /\ ch.read_only
          => /\ ch'.read_only
             /\ cout'.err = "none" => cout'.value.read_only]_vars

(***************************************************************************)
(* Claims about KeyValueField.                                             *)
(***************************************************************************)

\* the positions at which a line of text starts
LineStarts(text) == {1} \cup {i + 1 : i \in {j \in DOMAIN text : text[j] = "\n"}}

\* the line that starts at position p, without its line feed
LineAt(text, p) ==
    LET feeds == {j \in p .. Len(text) : text[j] = "\n"} IN
    IF feeds = {} THEN SubSeq(text, p, Len(text))
    ELSE SubSeq(text, p, (CHOOSE j \in feeds : \A k \in feeds : j <= k) - 1)

\* s from its first to its last character that is not white space
Trimmed(s) ==
    LET ink == {i \in DOMAIN s : s[i] \notin {" ", "\n"}} IN
    IF ink = {} THEN <<>>
    ELSE SubSeq(s, CHOOSE i \in ink : \A k \in ink : i <= k,
                   CHOOSE i \in ink : \A k \in ink : i >= k)

\* what the line starting at p says when read with separator sep
EntryAt(text, p, sep) ==
    LET line == Trimmed(LineAt(text, p))
        hits == {i \in 1 .. Len(line) - Len(sep) + 1 :
                    SubSeq(line, i, i + Len(sep) - 1) = sep}
        at == IF hits = {} THEN 0 ELSE CHOOSE i \in hits : \A k \in hits : i <= k
    IN  [blank |-> line = <<>>,
         valid |-> hits # {},
         key |-> Trimmed(SubSeq(line, 1, at - 1)),
         value |-> Trimmed(SubSeq(line, at + Len(sep), Len(line)))]

\* every line of text is blank or holds the separator
WellFormed(text, sep) ==
    \A p \in LineStarts(text) : EntryAt(text, p, sep).blank \/ EntryAt(text, p, sep).valid

\* the key/value pairs text stands for: of the lines with one key the last counts
PairsIn(text, sep) ==
    {<<EntryAt(text, p, sep).key, EntryAt(text, p, sep).value>> :
        p \in {q \in LineStarts(text) :
                  /\ ~EntryAt(text, q, sep).blank
                  /\ \A r \in LineStarts(text) :
                        r > q /\ ~EntryAt(text, r, sep).blank
                        => EntryAt(text, r, sep).key # EntryAt(text, q, sep).key}}

\* the key/value pairs a container holds
PairsHeld(container) ==
    {<<container.dict[i][1], container.dict[i][2].s>> : i \in DOMAIN container.dict}

\* C18: assigning a string whose non-blank lines all hold the field's separator
\* succeeds and gives the dictionary built line by line: blank lines skipped,
\* each other line split at the first occurrence of the field's separator, key
\* and value stripped, the last line of a key winning; reading the field
\* returns that dictionary.
C18_LineByLine ==
    kvout.op \in {"assign", "read"} /\ WellFormed(kv.text, kv.sep)
    => /\ kvout.err = "none"
       /\ kv.held.sep = kv.sep
       /\ PairsHeld(kv.held) = PairsIn(kv.text, kv.sep)
       /\ \A i \in DOMAIN kv.held.dict : kv.held.dict[i][2].t = "str"
       /\ Cardinality(PairsHeld(kv.held)) = Len(kv.held.dict)
       /\ kvout.op = "read" => kvout.value = kv.held

\* a text in which one key stands on two lines with different values, among
\* them a line with surrounding blanks, has been assigned and read back
C18_Witness ==
    /\ kvout.op = "read" /\ kvout.err = "none"
    /\ Len(kv.held.dict) = 1
    /\ \E p, q \in LineStarts(kv.text) :
          /\ p < q
          /\ ~EntryAt(kv.text, p, kv.sep).blank /\ ~EntryAt(kv.text, q, kv.sep).blank
          /\ EntryAt(kv.text, p, kv.sep).value # EntryAt(kv.text, q, kv.sep).value
          /\ LineAt(kv.text, q) # Trimmed(LineAt(kv.text, q))

\* C19: assigning a string with a non-blank line that lacks the field's
\* separator raises ValidationError and the field keeps the value it held
\* before, also when lines before the faulty one were well formed.
C19_InvalidInput ==
    kvout.op \in {"assign", "read"} /\ ~WellFormed(kv.text, kv.sep)
    => /\ kvout.err = "ValidationError"
       /\ kv.held = kvout.prev
       /\ kvout.op = "read" => kvout.value = kvout.prev

\* a text whose first line is well formed and whose second is not was assigned
\* to a field that held a value, and the field was read afterwards
C19_Witness ==
    /\ kvout.op = "read" /\ kvout.err = "ValidationError"
    /\ kvout.prev.dict # <<>>
    /\ EntryAt(kv.text, 1, kv.sep).valid
    /\ \E p \in LineStarts(kv.text) :
          ~EntryAt(kv.text, p, kv.sep).blank /\ ~EntryAt(kv.text, p, kv.sep).valid

\* C24, as stated: whatever sequence of construction (from a string, a mapping
\* or keyword arguments), item assignment and update() led to it, every value
\* a KeyValueContainer holds is a string.
C24_AsStated == \A i \in DOMAIN kv.held.dict : kv.held.dict[i][2].t = "str"

\* sub occurs in s
Occurs(sub, s) == \E i \in 1 .. Len(s) - Len(sub) + 1 : SubSeq(s, i, i + Len(sub) - 1) = sub

\* s neither starts nor ends with white space and holds no line feed
Plain(s) ==
    /\ \A i \in DOMAIN s : s[i] # "\n"
    /\ s # <<>> => s[1] # " " /\ s[Len(s)] # " "

\* the string a container makes of a value given to it
AsString(item) == IF item.t = "None" THEN <<>> ELSE item.s

\* C29, as stated: a dict whose keys and values have no surrounding white
\* space, no line feed and no separator in them was assigned to a field with
\* separator s; the text get_prep_value makes of the stored value is read back
\* by from_db_value as the same dict with its values as strings.
C29_AsStated ==
    /\ kvout.op = "load" /\ kv.origin = "assign"
    /\ \A i \in DOMAIN kv.map :
          /\ Plain(kv.map[i][1]) /\ ~Occurs(kv.sep, kv.map[i][1])
          /\ Plain(AsString(kv.map[i][2])) /\ ~Occurs(kv.sep, AsString(kv.map[i][2]))
    => /\ kvout.err = "none"
       /\ PairsHeld(kvout.value) =
             {<<kv.map[i][1], AsString(kv.map[i][2])>> : i \in DOMAIN kv.map}

\* the container's values are strings without line feed or surrounding white
\* space, its keys likewise and without the container's separator
RoundTrips(c) ==
    \A i \in DOMAIN c.dict :
        /\ c.dict[i][2].t = "str"
        /\ Plain(c.dict[i][1]) /\ ~Occurs(c.sep, c.dict[i][1])
        /\ Plain(c.dict[i][2].s)

RECURSIVE LinesOf(_, _)
\* one line "key s value" with its line feed for each of the entries from the
\* i-th on
LinesOf(c, i) ==
    IF i > Len(c.dict) THEN <<>>
    ELSE c.dict[i][1] \o <<" ">> \o c.sep \o <<" ">> \o c.dict[i][2].s \o <<"\n">>
            \o LinesOf(c, i + 1)

\* str(c) is c's lines followed by a final line feed, which for a container
\* with entries is the line feed of its last line, and the text parsed with
\* c's separator gives a container equal to c
TextRoundTrip ==
    /\ kvout.op = "prep" /\ RoundTrips(kv.held)
       => /\ kvout.err = "none"
          /\ kv.text = IF kv.held.dict = <<>> THEN <<"\n">> ELSE LinesOf(kv.held, 1)
    /\ kvout.op = "load" /\ RoundTrips(kvout.prev) /\ kvout.prev.sep = kv.sep
       => /\ kvout.err = "none"
          /\ kvout.value = kvout.prev
          /\ kv.held = kvout.prev

\* C30, as stated: for every container c with separator s whose keys hold
\* neither s nor a line feed, whose values hold no line feed and whose keys and
\* values have no surrounding white space, str(c) is one "key s value" line per
\* entry followed by a final line feed, and parsing it with s gives c again.
C30_AsStated == TextRoundTrip

\* C30: the same for every separator that holds no white space.
C30_TextRoundTrip == (\A i \in DOMAIN kv.sep : kv.sep[i] # " ") => TextRoundTrip

\* a container with two entries, one of them with an empty value, built with
\* a separator other than the default, was written out and read back
C30_Witness ==
    /\ kvout.op = "load" /\ kvout.err = "none"
    /\ kv.sep = <<":">> /\ kvout.prev.sep = kv.sep
    /\ RoundTrips(kvout.prev)
    /\ Len(kvout.prev.dict) = 2
    /\ \E i \in DOMAIN kvout.prev.dict : kvout.prev.dict[i][2].s = <<>>

(***************************************************************************)
(* Claims about UploadTo.                                                  *)
(***************************************************************************)

\* the base name of an uploaded name: what follows its last slash
BaseOf(name) ==
    LET slashes == {i \in DOMAIN name : name[i] = "/"} IN
    IF slashes = {} THEN name
    ELSE SubSeq(name, (CHOOSE i \in slashes : \A k \in slashes : i >= k) + 1, Len(name))

\* the positions of the dots of a base name
DotsOf(base) == {i \in DOMAIN base : base[i] = "."}

\* the extension of a base name with a dot: what follows its last dot
ExtensionOf(base) ==
    SubSeq(base, (CHOOSE i \in DotsOf(base) : \A k \in DotsOf(base) : i >= k) + 1, Len(base))

\* s and t are the same text but for the case of their letters
SameButCase(s, t) == Len(s) = Len(t) /\ \A i \in DOMAIN s : Lower(s[i]) = Lower(t[i])

\* the extension of the uploaded name is, but for case, on the object's blacklist
Blacklisted(options, name) ==
    /\ DotsOf(BaseOf(name)) # {}
    /\ \E e \in options.black_listed_extensions : SameButCase(e, ExtensionOf(BaseOf(name)))

\* path ends in a dot followed, but for case, by a blacklisted extension
EndsBlacklisted(options, path) ==
    \E e \in options.black_listed_extensions :
        /\ Len(path) > Len(e)
        /\ path[Len(path) - Len(e)] = "."
        /\ SameButCase(e, SubSeq(path, Len(path) - Len(e) + 1, Len(path)))

\* C20, as stated: a call with a name whose extension is, compared without
\* regard to case, in black_listed_extensions raises ValueError and returns no
\* path, and with the default template no returned path ends in a blacklisted
\* extension.
C20_AsStated ==
    upout.op = "call"
    => /\ Blacklisted(up.options, up.name) => upout.err = "ValueError" /\ upout.path = <<>>
       /\ upout.err = "none" /\ up.options.file_name_template = DefaultTemplate
          => ~EndsBlacklisted(up.options, upout.path)

\* the option in force on the object: the keyword option if one was given,
\* else the setting if there is one, else the default
InForce(opt) ==
    IF opt \in DOMAIN up.kwargs THEN up.kwargs[opt]
    ELSE IF opt \in DOMAIN up.settings THEN up.settings[opt]
    ELSE DefaultOptions[opt]

\* s in lower case
LowerCased(s) == [i \in DOMAIN s |-> Lower(s[i])]

\* the uploaded name has an extension and, case left aside, it is not on the
\* blacklist in force
Allowed(name) ==
    /\ DotsOf(BaseOf(name)) # {}
    /\ \A e \in InForce("black_listed_extensions") :
          ~SameButCase(e, ExtensionOf(BaseOf(name)))

\* what stands before the last dot of a base name
StemOf(base) ==
    SubSeq(base, 1, (CHOOSE i \in DotsOf(base) : \A k \in DotsOf(base) : i >= k) - 1)

\* the first n characters of s, or all of s when it is shorter
CutTo(s, n) == [i \in 1 .. (IF Len(s) < n THEN Len(s) ELSE n) |-> s[i]]

\* the template in force filled with the class name, the year, the file name
\* and the extension
Filled(template, filename, extension) ==
    IF template = DefaultTemplate
    THEN <<"FakeModel", "/", "2015", "/">> \o filename \o <<".">> \o extension
    ELSE <<"FakeModel", "/", "2015", "/">> \o filename \o <<"-", "1", ".">> \o extension

====
